---------------------------- MODULE Spec2Model ----------------------------
(***************************************************************************)
(* A model of gait's change-summarization pipeline                         *)
(* (CommitMessageGenerator in src/git/commit-generator.ts, GitManager in   *)
(* src/git/git-manager.ts).                                                *)
(*                                                                         *)
(* JavaScript strings are TLA+ strings: Len, SubSeq and \o act on them as  *)
(* on sequences of characters, a character being a string of length one.   *)
(* JavaScript offsets are 0-based, SubSeq is 1-based; the helpers below    *)
(* take and return 0-based offsets as the source does.                     *)
(***************************************************************************)
EXTENDS Integers, Sequences, FiniteSets, TLC

VARIABLES
    \* generateCommitMessage, one call
    pc, gitStatus, stagedDiff, workingDiff, diffSummary, options,
    changesReported, prompt, backendCalls, backendText, result, error,
    \* truncateDiff applied to a diff, and again to its own result
    tStage, tDiff, tMax, tOnce, tTwice,
    \* postProcessMessage applied to a raw text
    pStage, pRaw, pOptions, pOut,
    \* validateMessage applied to a message
    vStage, vMessage, vFormat, validation,
    \* getSuggestions applied to a message and a diff summary
    sStage, sMessage, sSummary, suggestions,
    \* the commit command, one run
    cPc, cFile, cOptions, cHasChanges, cGenerated, cMessage, cChoice,
    cOperation, gitOps, exitCode, cError,
    \* ConfigManager's operations on the configuration file: the caller's
    \* call and the setConfig calls addProvider left running
    cfgFile, cfgCalls, cfgOp, cfgArg, cfgAt, cfgConfig, cfgResult, cfgPending,
    \* the add-provider command, one run: the action and the setConfig that
    \* addProvider leaves running
    apFile, apProvider, mPc, mConfig, bPc, bProviders, bConfig, apEnded

genVars == <<pc, gitStatus, stagedDiff, workingDiff, diffSummary,
             options, changesReported, prompt, backendCalls, backendText,
             result, error>>
truncVars == <<tStage, tDiff, tMax, tOnce, tTwice>>
postVars == <<pStage, pRaw, pOptions, pOut>>
validVars == <<vStage, vMessage, vFormat, validation>>
suggestVars == <<sStage, sMessage, sSummary, suggestions>>
commandVars == <<cPc, cFile, cOptions, cHasChanges, cGenerated, cMessage, cChoice,
                 cOperation, gitOps, exitCode, cError>>
configVars == <<cfgFile, cfgCalls, cfgOp, cfgArg, cfgAt, cfgConfig, cfgResult,
                cfgPending>>
addProviderVars == <<apFile, apProvider, mPc, mConfig, bPc, bProviders, bConfig,
                     apEnded>>
vars == <<genVars, truncVars, postVars, validVars, suggestVars, commandVars,
          configVars, addProviderVars>>

----------------------------------------------------------------------------
(* Bounds of the model. *)

\* longest diff handed to truncateDiff
MaxDiffLen == 12
\* largest maxLength handed to truncateDiff
MaxDiffBudget == 11
\* longest raw text handed to postProcessMessage
MaxRawLen == 5
\* largest options.maxLength handed to postProcessMessage
MaxBudget == 3
\* longest run of filler characters in a message handed to validateMessage
MaxPad == 74
\* longest provider list the configuration file holds
MaxProviders == 2
\* most setConfig calls addProvider has left running at one time
MaxPending == 2
\* most calls the caller makes on the ConfigManager
MaxCalls == 3

----------------------------------------------------------------------------
(* JavaScript string primitives. *)

Min(S) == CHOOSE x \in S : \A y \in S : x <= y
Max(S) == CHOOSE x \in S : \A y \in S : x >= y

\* s.charAt(i), 0 <= i < s.length
CharAt(s, i) == SubSeq(s, i + 1, i + 1)

Clamp(s, i) == IF i < 0 THEN 0 ELSE IF i > Len(s) THEN Len(s) ELSE i

\* s.substring(a, b): both ends clamped to 0..s.length, swapped when a > b
Substring(s, a, b) ==
    LET ca == Clamp(s, a)
        cb == Clamp(s, b)
        lo == IF ca <= cb THEN ca ELSE cb
        hi == IF ca <= cb THEN cb ELSE ca
    IN  SubSeq(s, lo + 1, hi)

\* s.substring(a)
SubstringFrom(s, a) == Substring(s, a, Len(s))

\* s.indexOf(c) for a one-character c: -1 when absent
IndexOf(s, c) ==
    LET hits == {i \in 0..(Len(s) - 1) : CharAt(s, i) = c}
    IN  IF hits = {} THEN -1 ELSE Min(hits)

\* s.lastIndexOf(c) for a one-character c: -1 when absent
LastIndexOf(s, c) ==
    LET hits == {i \in 0..(Len(s) - 1) : CharAt(s, i) = c}
    IN  IF hits = {} THEN -1 ELSE Max(hits)

\* s.startsWith(t, at)
StartsWithAt(s, t, at) ==
    /\ at >= 0
    /\ at + Len(t) <= Len(s)
    /\ SubSeq(s, at + 1, at + Len(t)) = t

\* s.includes(t)
Includes(s, t) == \E at \in 0..(Len(s) - Len(t)) : StartsWithAt(s, t, at)

\* the white space String.prototype.trim and \s strip, among the characters
\* the model uses
WhiteSpace == {" ", "\t", "\n", "\r"}

\* s.trim()
Trim(s) ==
    LET keep == {i \in 0..(Len(s) - 1) : CharAt(s, i) \notin WhiteSpace}
    IN  IF keep = {} THEN "" ELSE Substring(s, Min(keep), Max(keep) + 1)

\* s.split('\n')
RECURSIVE Split(_)
Split(s) ==
    LET i == IndexOf(s, "\n")
    IN  IF i = -1 THEN <<s>>
        ELSE <<Substring(s, 0, i)>> \o Split(SubstringFrom(s, i + 1))

\* parts.join(sep)
RECURSIVE Join(_, _)
Join(parts, sep) ==
    IF Len(parts) = 0 THEN ""
    ELSE IF Len(parts) = 1 THEN parts[1]
    ELSE parts[1] \o sep \o Join(Tail(parts), sep)

\* every string of at most n characters of alphabet
RECURSIVE Strings(_, _)
Strings(alphabet, n) ==
    IF n = 0 THEN {""}
    ELSE LET shorter == Strings(alphabet, n - 1)
         IN  shorter \cup {s \o c : s \in shorter, c \in alphabet}

----------------------------------------------------------------------------
(* CommitMessageGenerator.truncateDiff *)

TruncationMarker == "\n\n[... diff truncated ...]"

\* the comparison taken as lastNewline >= maxLength * 0.8
AtLeastEightyPercent(lastNewline, maxLength) == 5 * lastNewline >= 4 * maxLength

\* lastNewline > maxLength * 0.8, on integers: 0.8 is the double
\* 0.8 + 0.4 * 2^-53, and maxLength * 0.8 rounds to 4 * maxLength / 5 exactly
\* when that is an integer, so the comparison with an integer offset is the
\* exact one
PastEightyPercent(lastNewline, maxLength) == 5 * lastNewline > 4 * maxLength

\* truncateDiff keeping the newline it cuts at
truncateDiffKeepingNewline(diff, maxLength) ==
    IF Len(diff) <= maxLength THEN diff
    ELSE LET truncated == Substring(diff, 0, maxLength)
             lastNewline == LastIndexOf(truncated, "\n")
         IN  IF PastEightyPercent(lastNewline, maxLength)
             THEN Substring(truncated, 0, lastNewline + 1) \o TruncationMarker
             ELSE truncated \o TruncationMarker

\* truncateDiff taking one character more than the budget
truncateDiffOneMore(diff, maxLength) ==
    IF Len(diff) <= maxLength THEN diff
    ELSE LET truncated == Substring(diff, 0, maxLength + 1)
             lastNewline == LastIndexOf(truncated, "\n")
         IN  IF PastEightyPercent(lastNewline, maxLength)
             THEN Substring(truncated, 0, lastNewline) \o TruncationMarker
             ELSE truncated \o TruncationMarker

\* truncateDiff with diff.length < maxLength as its first test
truncateDiffStrict(diff, maxLength) ==
    IF Len(diff) < maxLength THEN diff
    ELSE LET truncated == Substring(diff, 0, maxLength)
             lastNewline == LastIndexOf(truncated, "\n")
         IN  IF PastEightyPercent(lastNewline, maxLength)
             THEN Substring(truncated, 0, lastNewline) \o TruncationMarker
             ELSE truncated \o TruncationMarker

truncateDiff(diff, maxLength) ==
    IF Len(diff) <= maxLength THEN diff
    ELSE LET truncated == Substring(diff, 0, maxLength)
             lastNewline == LastIndexOf(truncated, "\n")
         IN  IF PastEightyPercent(lastNewline, maxLength)
             THEN Substring(truncated, 0, lastNewline) \o TruncationMarker
             ELSE truncated \o TruncationMarker

----------------------------------------------------------------------------
(* CommitMessageGenerator.postProcessMessage *)

\* the value standing for an option the caller left out: for a number, 0
\* (undefined and 0 are both falsy, so options.x || d treats them alike)
Undefined == "undefined"

\* options.x || fallback
OrDefault(value, fallback) == IF value = 0 THEN fallback ELSE value

DefaultMaxLength == 50
DefaultMaxDiffLength == 3000

\* U+0060, the backtick, which a string literal of this language cannot
\* hold: the model writes it as this character, and no input it is run on
\* contains either
Backtick == "~"
Fence == Backtick \o Backtick \o Backtick

\* processed.replace(/FENCE[^BACKTICK]*FENCE/g, ''): the negated class runs to
\* the next backtick, which must open the closing fence; the scan resumes
\* after a match and one character further after a failure
RECURSIVE RemoveCodeFences(_)
RemoveCodeFences(s) ==
    IF s = "" THEN ""
    ELSE LET rest == SubstringFrom(s, 3)
             close == IndexOf(rest, Backtick)
         IN  IF /\ StartsWithAt(s, Fence, 0)
                /\ close >= 0
                /\ StartsWithAt(rest, Fence, close)
             THEN RemoveCodeFences(SubstringFrom(rest, close + 3))
             ELSE CharAt(s, 0) \o RemoveCodeFences(SubstringFrom(s, 1))

\* processed.replace(/D([^c]+)D/g, '$1') for a delimiter D made of the
\* character c: a backtick, \*\* and \*. The negated class runs to the next
\* c, at least one character on, where the closing delimiter must stand
RECURSIVE UnwrapSpans(_, _, _)
UnwrapSpans(s, delim, c) ==
    IF s = "" THEN ""
    ELSE LET rest == SubstringFrom(s, Len(delim))
             close == IndexOf(rest, c)
         IN  IF /\ StartsWithAt(s, delim, 0)
                /\ close >= 1
                /\ StartsWithAt(rest, delim, close)
             THEN Substring(rest, 0, close)
                    \o UnwrapSpans(SubstringFrom(rest, close + Len(delim)), delim, c)
             ELSE CharAt(s, 0) \o UnwrapSpans(SubstringFrom(s, 1), delim, c)

\* the length of the run of character c that s starts with
RECURSIVE RunLength(_, _)
RunLength(s, c) ==
    IF s # "" /\ CharAt(s, 0) = c THEN 1 + RunLength(SubstringFrom(s, 1), c) ELSE 0

\* processed.replace(/ +/g, ' ')
RECURSIVE CollapseSpaces(_)
CollapseSpaces(s) ==
    IF s = "" THEN ""
    ELSE LET run == RunLength(s, " ")
         IN  IF run >= 1
             THEN " " \o CollapseSpaces(SubstringFrom(s, run))
             ELSE CharAt(s, 0) \o CollapseSpaces(SubstringFrom(s, 1))

\* processed.replace(/\n{3,}/g, '\n\n')
RECURSIVE CollapseNewlines(_)
CollapseNewlines(s) ==
    IF s = "" THEN ""
    ELSE LET run == RunLength(s, "\n")
         IN  IF run >= 3
             THEN "\n\n" \o CollapseNewlines(SubstringFrom(s, run))
             ELSE CharAt(s, 0) \o CollapseNewlines(SubstringFrom(s, 1))

\* lines 105-115: the trimmed message with its markdown removed and its runs
\* of spaces and newlines collapsed
cleanMessage(message) ==
    LET trimmed == Trim(message)
        noFences == RemoveCodeFences(trimmed)
        noCode == UnwrapSpans(noFences, Backtick, Backtick)
        noBold == UnwrapSpans(noCode, "**", "*")
        noItalic == UnwrapSpans(noBold, "*", "*")
        oneSpace == CollapseSpaces(noItalic)
    IN  CollapseNewlines(oneSpace)

\* limitFirstLine with the prefix ending before the colon
limitFirstLineDroppingColon(firstLine, maxLength) ==
    IF Len(firstLine) > maxLength
    THEN LET colonIndex == IndexOf(firstLine, ":")
         IN  IF colonIndex > 0 /\ colonIndex < maxLength
             THEN LET prefix == Substring(firstLine, 0, colonIndex)
                      description == Trim(SubstringFrom(firstLine, colonIndex + 1))
                      maxDescLength == maxLength - Len(prefix) - 1
                  IN  IF Len(description) > maxDescLength
                      THEN prefix \o " " \o Trim(Substring(description, 0, maxDescLength))
                      ELSE firstLine
             ELSE Trim(Substring(firstLine, 0, maxLength))
    ELSE firstLine

\* lines 121-139: lines[0] after the first-line length limit
limitFirstLine(firstLine, maxLength) ==
    IF Len(firstLine) > maxLength
    THEN LET colonIndex == IndexOf(firstLine, ":")
         IN  IF colonIndex > 0 /\ colonIndex < maxLength
             THEN LET prefix == Substring(firstLine, 0, colonIndex + 1)
                      description == Trim(SubstringFrom(firstLine, colonIndex + 1))
                      maxDescLength == maxLength - Len(prefix) - 1
                  IN  IF Len(description) > maxDescLength
                      THEN prefix \o " " \o Trim(Substring(description, 0, maxDescLength))
                      ELSE firstLine
             ELSE Trim(Substring(firstLine, 0, maxLength))
    ELSE firstLine

\* the lines array with the budget applied to every line
limitedLinesLimitingAll(message, opts) ==
    LET lines == Split(cleanMessage(message))
        maxLength == OrDefault(opts.maxLength, DefaultMaxLength)
    IN  [i \in 1..Len(lines) |-> limitFirstLine(lines[i], maxLength)]

\* the lines array once the first-line limit has been applied to lines[0]
limitedLines(message, opts) ==
    LET lines == Split(cleanMessage(message))
        maxLength == OrDefault(opts.maxLength, DefaultMaxLength)
    IN  [lines EXCEPT ![1] = limitFirstLine(lines[1], maxLength)]

postProcessMessage(message, opts) ==
    Trim(Join(limitedLines(message, opts), "\n"))

----------------------------------------------------------------------------
(* CommitMessageGenerator.validateMessage *)

FirstLineErrorLength == 72
FirstLineWarnLength == 50

TooLongError == "First line is too long (over 72 characters)"
LongerThanRecommendedWarning == "First line is longer than recommended 50 characters"
NotConventionalError == "First line does not follow conventional commit format"
ImperativeMoodWarning == "Consider using imperative mood (e.g., \"add\" instead of \"added\")"
BlankLineWarning == "Consider adding a blank line after the first line"

CommitTypes == {"feat", "fix", "docs", "style", "refactor", "perf", "test",
                "chore", "ci", "build", "revert"}

\* what . matches: any character but a line terminator
Dot(c) == c \notin {"\n", "\r"}

\* ": .+" standing at offset at of s
ColonSpaceText(s, at) ==
    /\ StartsWithAt(s, ": ", at)
    /\ at + 2 < Len(s)
    /\ Dot(CharAt(s, at + 2))

\* the pattern with its scope group made mandatory
conventionalRegexTestScopeRequired(firstLine) ==
    \E type \in CommitTypes :
        /\ StartsWithAt(firstLine, type, 0)
        /\ LET rest == SubstringFrom(firstLine, Len(type))
           IN  /\ StartsWithAt(rest, "(", 0)
               /\ \E close \in 2..(Len(rest) - 1) :
                     /\ CharAt(rest, close) = ")"
                     /\ \A i \in 1..(close - 1) : Dot(CharAt(rest, i))
                     /\ ColonSpaceText(rest, close + 1)

\* /^(feat|fix|...|revert)(\(.+\))?: .+/.test(firstLine): no type is the
\* start of another, so the alternation picks at most one; .+ inside the
\* parentheses may end at any later ")" the rest still matches after
conventionalRegexTest(firstLine) ==
    \E type \in CommitTypes :
        /\ StartsWithAt(firstLine, type, 0)
        /\ LET rest == SubstringFrom(firstLine, Len(type))
           IN  \/ ColonSpaceText(rest, 0)
               \/ /\ StartsWithAt(rest, "(", 0)
                  /\ \E close \in 2..(Len(rest) - 1) :
                        /\ CharAt(rest, close) = ")"
                        /\ \A i \in 1..(close - 1) : Dot(CharAt(rest, i))
                        /\ ColonSpaceText(rest, close + 1)

\* the number of white-space characters s starts with
RECURSIVE LeadingWhiteSpace(_)
LeadingWhiteSpace(s) ==
    IF s # "" /\ CharAt(s, 0) \in WhiteSpace
    THEN 1 + LeadingWhiteSpace(SubstringFrom(s, 1))
    ELSE 0

\* firstLine.replace(/^[^:]*:\s*/, '')
stripTypePrefix(firstLine) ==
    LET colon == IndexOf(firstLine, ":")
    IN  IF colon = -1 THEN firstLine
        ELSE LET rest == SubstringFrom(firstLine, colon + 1)
             IN  SubstringFrom(rest, LeadingWhiteSpace(rest))

\* s.split(' ')[0]
beforeFirstSpace(s) ==
    LET space == IndexOf(s, " ")
    IN  IF space = -1 THEN s ELSE Substring(s, 0, space)

EndsWith(s, t) == StartsWithAt(s, t, Len(s) - Len(t))

\* /(ed|ing|s)$/i.test(word)
verbEndingRegexTest(word) ==
    \E ending \in {"ed", "eD", "Ed", "ED", "s", "S",
                   "ing", "inG", "iNg", "iNG", "Ing", "InG", "INg", "ING"} :
        EndsWith(word, ending)

NewValidation == [valid |-> TRUE, errors |-> <<>>, warnings |-> <<>>]

\* the length check asking for the recommended length first
checkFirstLineLengthWarnFirst(v, firstLine) ==
    IF Len(firstLine) > FirstLineWarnLength
    THEN [v EXCEPT !.warnings = Append(@, LongerThanRecommendedWarning)]
    ELSE IF Len(firstLine) > FirstLineErrorLength
    THEN [v EXCEPT !.errors = Append(@, TooLongError), !.valid = FALSE]
    ELSE v

\* the length check with both thresholds taken inclusively
checkFirstLineLengthInclusive(v, firstLine) ==
    IF Len(firstLine) >= FirstLineErrorLength
    THEN [v EXCEPT !.errors = Append(@, TooLongError), !.valid = FALSE]
    ELSE IF Len(firstLine) >= FirstLineWarnLength
    THEN [v EXCEPT !.warnings = Append(@, LongerThanRecommendedWarning)]
    ELSE v

\* lines 157-163
checkFirstLineLength(v, firstLine) ==
    IF Len(firstLine) > FirstLineErrorLength
    THEN [v EXCEPT !.errors = Append(@, TooLongError), !.valid = FALSE]
    ELSE IF Len(firstLine) > FirstLineWarnLength
    THEN [v EXCEPT !.warnings = Append(@, LongerThanRecommendedWarning)]
    ELSE v

\* the format check recording its error and leaving valid as it was
checkConventionalFormatKeepingValid(v, firstLine, format) ==
    IF format = "conventional" /\ ~conventionalRegexTest(firstLine)
    THEN [v EXCEPT !.errors = Append(@, NotConventionalError)]
    ELSE v

\* the format check applied whatever the format is
checkConventionalFormatEveryFormat(v, firstLine, format) ==
    IF ~conventionalRegexTest(firstLine)
    THEN [v EXCEPT !.errors = Append(@, NotConventionalError), !.valid = FALSE]
    ELSE v

\* lines 165-172
checkConventionalFormat(v, firstLine, format) ==
    IF format = "conventional" /\ ~conventionalRegexTest(firstLine)
    THEN [v EXCEPT !.errors = Append(@, NotConventionalError), !.valid = FALSE]
    ELSE v

\* lines 174-179
checkImperativeMood(v, firstLine) ==
    LET firstWord == beforeFirstSpace(stripTypePrefix(firstLine))
    IN  IF verbEndingRegexTest(firstWord)
        THEN [v EXCEPT !.warnings = Append(@, ImperativeMoodWarning)]
        ELSE v

\* lines 181-184
checkBlankLine(v, lines) ==
    IF Len(lines) > 1 /\ lines[2] # ""
    THEN [v EXCEPT !.warnings = Append(@, BlankLineWarning)]
    ELSE v

\* format is 'conventional' when the caller passes none
validateMessage(message, formatArg) ==
    LET format == IF formatArg = Undefined THEN "conventional" ELSE formatArg
        lines == Split(message)
        firstLine == lines[1]
        v1 == checkFirstLineLength(NewValidation, firstLine)
        v2 == checkConventionalFormat(v1, firstLine, format)
        v3 == checkImperativeMood(v2, firstLine)
    IN  checkBlankLine(v3, lines)

----------------------------------------------------------------------------
(* GitManager.getStatus, getDiff and getDiffSummary *)

\* hasChanges() counting the conflicted paths too
hasChangesWithConflicted(status) ==
    \/ Len(status.staged) > 0
    \/ Len(status.modified) > 0
    \/ Len(status.deleted) > 0
    \/ Len(status.not_added) > 0
    \/ Len(status.conflicted) > 0

\* hasChanges() leaving the untracked paths out
hasChangesIgnoringUntracked(status) ==
    \/ Len(status.staged) > 0
    \/ Len(status.modified) > 0
    \/ Len(status.deleted) > 0

\* hasChanges() of the snapshot getStatus returns: a closure over the status
\* simple-git reported
hasChanges(status) ==
    \/ Len(status.staged) > 0
    \/ Len(status.modified) > 0
    \/ Len(status.deleted) > 0
    \/ Len(status.not_added) > 0

\* the GitStatus getStatus builds from simple-git's status
getStatus(status) ==
    [added |-> status.staged,
     modified |-> status.modified,
     deleted |-> status.deleted,
     untracked |-> status.not_added,
     conflicted |-> status.conflicted,
     hasChanges |-> hasChanges(status)]

\* getDiffSummary's catch dropping the cause it caught
DiffSummaryFailureDroppingCause(message) == "Failed to get diff summary"

StatusFailure(message) == "Failed to get git status: " \o message
DiffFailure(message) == "Failed to get git diff: " \o message
DiffSummaryFailure(message) == "Failed to get diff summary: " \o message

NoChangesError == "No changes detected in repository"

----------------------------------------------------------------------------
(* CommitMessageGenerator.buildPrompt *)

Digits == <<"0", "1", "2", "3", "4", "5", "6", "7", "8", "9">>

\* a non-negative number in a template literal
RECURSIVE NumberToString(_)
NumberToString(n) ==
    IF n < 10 THEN Digits[n + 1]
    ELSE NumberToString(n \div 10) \o Digits[(n % 10) + 1]

\* one line of the files-changed section, none for an empty category
CategoryLine(label, paths) ==
    IF Len(paths) > 0
    THEN "- " \o label \o ": " \o Join(paths, ", ") \o "\n"
    ELSE ""

\* buildPrompt listing the deleted paths ahead of the modified ones
buildPromptDeletedBeforeModified(summary, opts) ==
    "Generate a commit message for the following Git changes:\n\n"
    \o "Files changed:\n"
    \o CategoryLine("Added", summary.status.added)
    \o CategoryLine("Deleted", summary.status.deleted)
    \o CategoryLine("Modified", summary.status.modified)
    \o CategoryLine("Untracked", summary.status.untracked)
    \o "\nCode changes:\n"
    \o truncateDiff(summary.diff, OrDefault(opts.maxDiffLength, DefaultMaxDiffLength))
    \o "\n\nInstructions:\n"
    \o (IF opts.format = "conventional"
        THEN "- Use conventional commit format (type(scope): description)\n"
        ELSE "")
    \o "- Keep the first line under "
    \o NumberToString(OrDefault(opts.maxLength, DefaultMaxLength))
    \o " characters\n"
    \o "- Use present tense, imperative mood\n"
    \o "- Focus on what the change accomplishes\n"

buildPrompt(summary, opts) ==
    "Generate a commit message for the following Git changes:\n\n"
    \o "Files changed:\n"
    \o CategoryLine("Added", summary.status.added)
    \o CategoryLine("Modified", summary.status.modified)
    \o CategoryLine("Deleted", summary.status.deleted)
    \o CategoryLine("Untracked", summary.status.untracked)
    \o "\nCode changes:\n"
    \o truncateDiff(summary.diff, OrDefault(opts.maxDiffLength, DefaultMaxDiffLength))
    \o "\n\nInstructions:\n"
    \o (IF opts.format = "conventional"
        THEN "- Use conventional commit format (type(scope): description)\n"
        ELSE "")
    \o "- Keep the first line under "
    \o NumberToString(OrDefault(opts.maxLength, DefaultMaxLength))
    \o " characters\n"
    \o "- Use present tense, imperative mood\n"
    \o "- Focus on what the change accomplishes\n"

\* the callback handing the backend's text on as it came
onGeneratedUnprocessed(res, opts) == res.text

\* the callback generateCommitMessage chains on agent.generate(prompt)
onGenerated(res, opts) == postProcessMessage(res.text, opts)

----------------------------------------------------------------------------
(* CommitMessageGenerator.getSuggestions *)

UpperCaseLetters == "ABCDEFGHIJKLMNOPQRSTUVWXYZ"
LowerCaseLetters == "abcdefghijklmnopqrstuvwxyz"

\* s.toLowerCase(), on ASCII
RECURSIVE ToLowerCase(_)
ToLowerCase(s) ==
    IF s = "" THEN ""
    ELSE LET c == CharAt(s, 0)
             at == IndexOf(UpperCaseLetters, c)
         IN  (IF at = -1 THEN c ELSE CharAt(LowerCaseLetters, at))
             \o ToLowerCase(SubstringFrom(s, 1))

\* [...status.added, ...status.modified]
AddedOrModified(status) == status.added \o status.modified

\* file.includes('test') || file.includes('spec')
IsTestFile(file) == Includes(file, "test") \/ Includes(file, "spec")

\* file.match(/\.(js|ts|py|java|go|rs|cpp|c)$/)
IsCodeFile(file) ==
    \E extension \in {".js", ".ts", ".py", ".java", ".go", ".rs", ".cpp", ".c"} :
        EndsWith(file, extension)

\* file.match(/\.(md|rst|txt)$/i) || file.toLowerCase().includes('readme')
IsDocFile(file) ==
    \/ \E extension \in {".md", ".rst", ".txt"} : EndsWith(ToLowerCase(file), extension)
    \/ Includes(ToLowerCase(file), "readme")

\* hasTestChanges looking at the untracked paths too
hasTestChangesWithUntracked(status) ==
    LET files == AddedOrModified(status) \o status.untracked
    IN  \E i \in 1..Len(files) : IsTestFile(files[i])

hasTestChanges(status) ==
    LET files == AddedOrModified(status) IN \E i \in 1..Len(files) : IsTestFile(files[i])
hasCodeChanges(status) ==
    LET files == AddedOrModified(status) IN \E i \in 1..Len(files) : IsCodeFile(files[i])
hasDocChanges(status) ==
    LET files == AddedOrModified(status) IN \E i \in 1..Len(files) : IsDocFile(files[i])

\* a value of diffSummary.diff: the parameter is declared string[], and
\* getDiffSummary hands out a string; isArray tells which one the caller
\* passed, text or items holds it
TextDiff(text) == [isArray |-> FALSE, text |-> text, items |-> <<>>]
ArrayDiff(items) == [isArray |-> TRUE, text |-> "", items |-> items]

\* diffSummary.diff.includes(t): Array.prototype.includes looks for an element
\* equal to t, String.prototype.includes for an occurrence of t
diffIncludes(diff, t) ==
    IF diff.isArray
    THEN \E i \in 1..Len(diff.items) : diff.items[i] = t
    ELSE Includes(diff.text, t)

hasPublicAPIChanges(diff) == diffIncludes(diff, "export") \/ diffIncludes(diff, "public")

\* the condition of lines 227-231 without the deleted files
isBreakingChangeByDiffOnly(summary) ==
    \/ diffIncludes(summary.diff, "BREAKING")
    \/ diffIncludes(summary.diff, "breaking")

\* the condition of lines 227-231
isBreakingChange(summary) ==
    \/ diffIncludes(summary.diff, "BREAKING")
    \/ diffIncludes(summary.diff, "breaking")
    \/ Len(summary.status.deleted) > 0

Suggestion(type, message) == [type |-> type, message |-> message]

TestsSuggestion == Suggestion("warning", "Consider adding tests for your code changes")
DocsSuggestion == Suggestion("info", "Consider updating documentation for API changes")
BreakingSuggestion ==
    Suggestion("warning",
               "This may be a breaking change - consider using BREAKING CHANGE footer")

\* texts.map(text => ({type, message: text}))
SuggestionsOf(type, texts) == [i \in 1..Len(texts) |-> Suggestion(type, texts[i])]

\* getSuggestions pushing the validator's warnings ahead of its errors
getSuggestionsWarningsFirst(message, summary) ==
    LET validated == validateMessage(message, Undefined)
    IN  (IF hasCodeChanges(summary.status) /\ ~hasTestChanges(summary.status)
         THEN <<TestsSuggestion>> ELSE <<>>)
        \o (IF hasPublicAPIChanges(summary.diff) /\ ~hasDocChanges(summary.status)
            THEN <<DocsSuggestion>> ELSE <<>>)
        \o (IF isBreakingChange(summary) THEN <<BreakingSuggestion>> ELSE <<>>)
        \o (IF Len(validated.warnings) > 0
            THEN SuggestionsOf("warning", validated.warnings) ELSE <<>>)
        \o (IF ~validated.valid
            THEN SuggestionsOf("error", validated.errors) ELSE <<>>)

\* getSuggestions pushing the validator's warnings only for a valid message
getSuggestionsWarningsWhenValid(message, summary) ==
    LET validated == validateMessage(message, Undefined)
    IN  (IF hasCodeChanges(summary.status) /\ ~hasTestChanges(summary.status)
         THEN <<TestsSuggestion>> ELSE <<>>)
        \o (IF hasPublicAPIChanges(summary.diff) /\ ~hasDocChanges(summary.status)
            THEN <<DocsSuggestion>> ELSE <<>>)
        \o (IF isBreakingChange(summary) THEN <<BreakingSuggestion>> ELSE <<>>)
        \o (IF ~validated.valid
            THEN SuggestionsOf("error", validated.errors)
            ELSE SuggestionsOf("warning", validated.warnings))

getSuggestions(message, summary) ==
    LET validated == validateMessage(message, Undefined)
    IN  (IF hasCodeChanges(summary.status) /\ ~hasTestChanges(summary.status)
         THEN <<TestsSuggestion>> ELSE <<>>)
        \o (IF hasPublicAPIChanges(summary.diff) /\ ~hasDocChanges(summary.status)
            THEN <<DocsSuggestion>> ELSE <<>>)
        \o (IF isBreakingChange(summary) THEN <<BreakingSuggestion>> ELSE <<>>)
        \o (IF ~validated.valid
            THEN SuggestionsOf("error", validated.errors) ELSE <<>>)
        \o (IF Len(validated.warnings) > 0
            THEN SuggestionsOf("warning", validated.warnings) ELSE <<>>)

----------------------------------------------------------------------------
(* The commit command's action and the GitManager commit operations. *)

\* options.maxLength || '5000', parsed: the command declares no option that
\* would set options.maxLength
CommitMaxLength == 5000

ExitSuccess == 0
ExitFailure == 1
\* exitCode while the process runs
Running == -1

\* options.format || 'conventional'
FormatOrDefault(format) == IF format = Undefined THEN "conventional" ELSE format

\* s.split(',')
RECURSIVE SplitComma(_)
SplitComma(s) ==
    LET i == IndexOf(s, ",")
    IN  IF i = -1 THEN <<s>>
        ELSE <<Substring(s, 0, i)>> \o SplitComma(SubstringFrom(s, i + 1))

\* options.files.split(',').map(f => f.trim())
filesOf(files) ==
    LET parts == SplitComma(files) IN [i \in 1..Len(parts) |-> Trim(parts[i])]

AddOp(paths) == [op |-> "add", paths |-> paths, message |-> ""]
CommitOp(message) == [op |-> "commit", paths |-> <<>>, message |-> message]

CommitAllFailure(message) == "Failed to commit all changes: " \o message
CommitStagedFailure(message) == "Failed to commit staged changes: " \o message
CommitFilesFailure(message) == "Failed to commit files: " \o message
FileNotFound(file) == "File not found: " \o file

\* the GitManager operation a branch of lines 121-131 calls
operationOf(branch) ==
    IF branch = "commitStaged" THEN "commitStaged"
    ELSE IF branch = "accessFiles" THEN "commitFiles"
    ELSE IF branch = "addAll" THEN "commitAll"
    ELSE "none"

\* the branch of lines 121-131 for a --dry-run that is not looked at
commitBranchIgnoringDryRun(opts) ==
    IF opts.stagedOnly THEN "commitStaged"
    ELSE IF opts.files # "" THEN "accessFiles"
    ELSE "addAll"

\* the branches of lines 121-131 with --files looked at before --staged-only
commitBranchFilesFirst(opts) ==
    IF opts.dryRun THEN "dryRun"
    ELSE IF opts.files # "" THEN "accessFiles"
    ELSE IF opts.stagedOnly THEN "commitStaged"
    ELSE "addAll"

\* lines 112-131: where the action goes once the message is settled
commitBranch(opts) ==
    IF opts.dryRun THEN "dryRun"
    ELSE IF opts.stagedOnly THEN "commitStaged"
    ELSE IF opts.files # "" THEN "accessFiles"
    ELSE "addAll"

----------------------------------------------------------------------------
(* ConfigManager: the configuration file and the operations on it.         *)
(* A Config object is [keys, providers, defaultProvider, defaultFormat,    *)
(* maxLength]: keys are the own properties the object has, and the field   *)
(* of a key the object lacks holds its blank value. A provider is an       *)
(* Ollama provider with the default url, known by its name and model.      *)

ConfigKeys == {"providers", "defaultProvider", "defaultFormat", "maxLength"}

\* the object literal {}
EmptyObject ==
    [keys |-> {}, providers |-> <<>>, defaultProvider |-> "",
     defaultFormat |-> "", maxLength |-> 0]

\* the defaults of lines 50-53 and 64-67
DefaultConfig ==
    [keys |-> {"providers", "defaultProvider"}, providers |-> <<>>,
     defaultProvider |-> "", defaultFormat |-> "", maxLength |-> 0]

\* config[key] = value
assignKey(config, key, value) ==
    [config EXCEPT !.keys = @ \cup {key}, ![key] = value]

\* delete config[key]
deleteKey(config, key) ==
    [config EXCEPT !.keys = @ \ {key}, ![key] = EmptyObject[key]]

Quoted(s) == "\"" \o s \o "\""

\* a provider as an element of the providers array, indented by 2
providerJson(provider) ==
    "    {\n      \"type\": \"OLLAMA\",\n      \"name\": " \o Quoted(provider.name)
    \o ",\n      \"model\": " \o Quoted(provider.model)
    \o ",\n      \"url\": \"http://localhost:11434\"\n    }"

providersJson(providers) ==
    IF Len(providers) = 0 THEN "[]"
    ELSE "[\n" \o Join([i \in 1..Len(providers) |-> providerJson(providers[i])], ",\n")
         \o "\n  ]"

\* JSON.stringify(config, null, 2), the properties in the order of
\* ConfigKeys' declaration; the order does not change the text's length
stringify(config) ==
    LET property(key, value) ==
            IF key \in config.keys THEN <<"  " \o Quoted(key) \o ": " \o value>>
            ELSE <<>>
        properties ==
            property("providers", providersJson(config.providers))
            \o property("defaultProvider", Quoted(config.defaultProvider))
            \o property("defaultFormat", Quoted(config.defaultFormat))
            \o property("maxLength", NumberToString(config.maxLength))
    IN  IF config.keys = {} THEN "{}"
        ELSE "{\n" \o Join(properties, ",\n") \o "\n}"

\* The file at configPath. dir: ~/.gait exists; exists: the file does;
\* json: its text is the JSON of config; size: the length of its text.
\* A file that is no JSON is one just opened for writing (size 0), or the
\* text two overlapping writes left.
NoDirectory ==
    [dir |-> FALSE, exists |-> FALSE, json |-> FALSE, config |-> EmptyObject,
     size |-> 0]
NoFile == [NoDirectory EXCEPT !.dir = TRUE]
FileOf(config) ==
    [dir |-> TRUE, exists |-> TRUE, json |-> TRUE, config |-> config,
     size |-> Len(stringify(config))]
NotJson(size) ==
    [dir |-> TRUE, exists |-> TRUE, json |-> FALSE, config |-> EmptyObject,
     size |-> size]

\* fs.writeFile, first half: the file is opened with flag 'w', which
\* creates it or cuts it to nothing
opened(file) == NotJson(0)

\* fs.writeFile, second half: the text is written from offset 0; text that
\* another write put there since the opening stays behind the end of a
\* shorter one
written(file, config) ==
    IF Len(stringify(config)) >= file.size THEN FileOf(config)
    ELSE NotJson(file.size)

\* getConfig: the object it returns, the defaults for a file that is absent
\* (lines 47-57) and for one that does not parse (lines 62-68)
getConfig(file) ==
    IF file.exists /\ file.json THEN file.config ELSE DefaultConfig

\* getConfig: the file it leaves, an absent one created with the defaults
\* (mkdir and writeFile, lines 55-56)
fileAfterGetConfig(file) == IF file.exists THEN file ELSE FileOf(DefaultConfig)

\* what a call gave back: a provider, null, nothing (a resolved
\* Promise<void>), a Config, or an error thrown
NoProvider == [name |-> "", model |-> ""]
Returned(provider) == [kind |-> "provider", provider |-> provider]
ReturnedNull == [kind |-> "null", provider |-> NoProvider]
ReturnedVoid == [kind |-> "void", provider |-> NoProvider]
ReturnedConfig == [kind |-> "config", provider |-> NoProvider]
\* getLlmProviders: config.providers, a list or undefined
ReturnedProviders == [kind |-> "providers", provider |-> NoProvider]
ReturnedUndefined == [kind |-> "undefined", provider |-> NoProvider]

\* lines 89-91, on the object getConfig returned; the list itself is the
\* providers of that object
getLlmProviders(config) ==
    IF "providers" \in config.keys THEN ReturnedProviders ELSE ReturnedUndefined
ThrewTypeError == [kind |-> "TypeError", provider |-> NoProvider]
ThrewNoEntry == [kind |-> "ENOENT", provider |-> NoProvider]
NotCalled == [kind |-> "none", provider |-> NoProvider]

\* getDefaultProvider returning the first provider whatever the default is
getDefaultProviderFirstAlways(config) ==
    IF "providers" \notin config.keys THEN ThrewTypeError
    ELSE IF Len(config.providers) = 0 THEN ReturnedNull
    ELSE Returned(config.providers[1])

\* lines 102-117, on the object getConfig returned; config.providers.length
\* of an object without providers throws
getDefaultProvider(config) ==
    IF "providers" \notin config.keys THEN ThrewTypeError
    ELSE IF Len(config.providers) = 0 THEN ReturnedNull
    ELSE LET named == {i \in 1..Len(config.providers) :
                          config.providers[i].name = config.defaultProvider}
         IN  IF config.defaultProvider # "" /\ named # {}
             THEN Returned(config.providers[Min(named)])
             ELSE Returned(config.providers[1])

\* addProvider: [...config.providers, provider] throws on an object without
\* providers
canSpreadProviders(config) == "providers" \in config.keys

\* a setConfig under way: where it is, the value for 'providers' it was
\* given, and its local config
SetConfigTask(at, providers, config) ==
    [at |-> at, providers |-> providers, config |-> config]

----------------------------------------------------------------------------
(* The inputs the specifications draw from. *)

DiffAlphabet == {"a", "\n"}
DiffInputs == Strings(DiffAlphabet, MaxDiffLen)
DiffBudgets == 1..MaxDiffBudget

RawAlphabet == {"a", ":", " ", "\n", "*"}
RawInputs == Strings(RawAlphabet, MaxRawLen)

Formats == {"conventional", "simple", "detailed"}

\* options of generateCommitMessage; Undefined and 0 are options left out
OptionsOf(format, maxLength, maxDiffLength) ==
    [format |-> format, maxLength |-> maxLength, maxDiffLength |-> maxDiffLength]

RECURSIVE Pad(_)
Pad(n) == IF n = 0 THEN "" ELSE "a" \o Pad(n - 1)

MessageHeads == {"", "feat: ", "feat:", "fix(auth): ", "fix(): ", "fix(a)(b): ",
                 "Fix: ", "wip: ", "docs (x): ", "test(a:b): ", "ci:  ",
                 "update ", "feat(auth): add OAuth2 integration"}
MessageTails == {"", "s", " added x", "\nbody", "\n\nbody", "ing\nbody"}
MessageInputs ==
    {head \o Pad(n) \o tail : head \in MessageHeads, n \in 0..MaxPad, tail \in MessageTails}

\* what simple-git's status() may report: a path is in at most one list
RawStatuses ==
    [staged : {<<>>, <<"a.ts">>, <<"a.ts", "docs/b.md">>},
     modified : {<<>>, <<"src/m.ts">>},
     deleted : {<<>>, <<"old.ts">>},
     not_added : {<<>>, <<"n.txt">>},
     conflicted : {<<>>, <<"c.ts">>}]

StagedDiffs == {"", " \n", "+export function f(){}"}
WorkingDiffs == {"", "-a\n+b\n"}

GenerateOptions ==
    {OptionsOf(f, l, d) : f \in Formats \cup {Undefined}, l \in {0, 3, 50}, d \in {0, 4}}

BackendTexts == {"fix: a", "feat: add thing", "**fix**: a  b", "feat: abc \nbody", "  done\n\n\n\nbody "}

VcsMessage == "fatal: not a git repository"
BackendMessage == "401 Unauthorized"

\* getSuggestions' inputs
SuggestMessages == {"fix: remove old module", "feat: adds x\nbody", "Fixed stuff",
                    "Updated " \o Pad(MaxPad) \o "\nbody", ""}
SuggestAdded == {<<>>, <<"a.ts">>, <<"a.ts", "a.test.ts">>, <<"lib/x.c", "README">>,
                 <<"notes.TXT">>, <<"specs.py">>, <<"view.tsx">>, <<"Tests/a.ts">>,
                 <<"b.JS">>}
SuggestModified == {<<>>, <<"src/m.go">>, <<"docs/guide.md">>}
SuggestDeleted == {<<>>, <<"old.ts">>}
SuggestDiffs ==
    {TextDiff(text) : text \in {"", "+export function f(){}", "-public x\n",
                                "BREAKING CHANGE: x", "a breaking b", "Breaking"}}
    \cup {ArrayDiff(items) : items \in {<<>>, <<"export">>, <<"+export function f(){}">>,
                                         <<"x", "breaking">>, <<"BREAKING", "public">>}}
SuggestUntracked == {<<>>, <<"x.test.js">>}
SuggestSummaries ==
    {[status |-> [added |-> a, modified |-> m, deleted |-> d, untracked |-> u],
      diff |-> diff] :
        a \in SuggestAdded, m \in SuggestModified, d \in SuggestDeleted,
        u \in SuggestUntracked, diff \in SuggestDiffs}

\* the commit command's inputs: "" is a --files left out or given empty,
\* both falsy at line 124
CommandOptions ==
    [stagedOnly : BOOLEAN, files : {"", "a.ts", "a.ts, b.ts", "gone.ts,a.ts", "a.ts,gone.ts"},
     dryRun : BOOLEAN, interactive : BOOLEAN,
     format : {Undefined, "conventional", "simple"}]
\* the paths fs.access finds
ExistingFiles == {"a.ts", "b.ts"}
EditedTexts == {"fix: edited\n", " "}
\* the TypeError of getModel(null), get-model.ts line 12
NullProviderMessage == "Cannot read properties of null (reading 'type')"
\* the TypeError of config.providers.length, config.manager.ts line 103
NoProvidersMessage == "Cannot read properties of undefined (reading 'length')"
PromptMessage == "Prompt couldn't be rendered in the current environment"

\* the providers given to addProvider: two of one name, one of another
Providers ==
    {[name |-> "a", model |-> "m"], [name |-> "a", model |-> "n"],
     [name |-> "b", model |-> "n"]}
\* values setConfig is given for a key; defaultProvider: a name providers
\* carry, a name none does
SetConfigValues(key) ==
    CASE key = "providers" -> {<<>>}
      [] key = "defaultProvider" -> {"a", "c"}
      [] key = "defaultFormat" -> {"simple"}
      [] key = "maxLength" -> {72}
NoArgument == [key |-> "", provider |-> NoProvider]
KeyArgument(key) == [key |-> key, provider |-> NoProvider]
ProviderArgument(provider) == [key |-> "", provider |-> provider]
\* a stored configuration with one provider
OneProvider(defaultProvider) ==
    [DefaultConfig EXCEPT !.providers = <<[name |-> "b", model |-> "m"]>>,
                          !.defaultProvider = defaultProvider]
\* the providers the add-provider command is given
NewProviders == {[name |-> "a", model |-> "m"], [name |-> "b", model |-> "n"]}
\* the configuration files the add-provider command may find
AddProviderFiles ==
    {NoDirectory, FileOf(DefaultConfig), FileOf(EmptyObject),
     FileOf(OneProvider("")), FileOf(OneProvider("b"))}
\* the configuration files a first call on the ConfigManager may find: none
\* on a fresh home, one provider and no default, two and the second named
ConfigFiles ==
    {NoDirectory, FileOf(OneProvider("")),
     FileOf([DefaultConfig EXCEPT
                !.providers = <<[name |-> "b", model |-> "n"],
                                [name |-> "a", model |-> "m"]>>,
                !.defaultProvider = "a"])}
\* the configuration files the commit command may find
CommandFiles ==
    {NoDirectory, FileOf(DefaultConfig), FileOf(EmptyObject),
     FileOf(OneProvider("")), FileOf(OneProvider("b"))}

----------------------------------------------------------------------------
(* Idle values of the variables a specification does not use. *)

NoSummary == [status |-> getStatus([staged |-> <<>>, modified |-> <<>>,
                                    deleted |-> <<>>, not_added |-> <<>>,
                                    conflicted |-> <<>>]),
              diff |-> ""]

GenIdle ==
    /\ pc = "idle"
    /\ gitStatus = <<>>
    /\ stagedDiff = ""
    /\ workingDiff = ""
    /\ diffSummary = NoSummary
    /\ options = OptionsOf(Undefined, 0, 0)
    /\ changesReported = "unasked"
    /\ prompt = ""
    /\ backendCalls = 0
    /\ backendText = ""
    /\ result = ""
    /\ error = ""

TruncIdle ==
    /\ tStage = "idle"
    /\ tDiff = ""
    /\ tMax = 0
    /\ tOnce = ""
    /\ tTwice = ""

PostIdle ==
    /\ pStage = "idle"
    /\ pRaw = ""
    /\ pOptions = OptionsOf(Undefined, 0, 0)
    /\ pOut = ""

ValidIdle ==
    /\ vStage = "idle"
    /\ vMessage = ""
    /\ vFormat = Undefined
    /\ validation = NewValidation

SuggestIdle ==
    /\ sStage = "idle"
    /\ sMessage = ""
    /\ sSummary = [status |-> [added |-> <<>>, modified |-> <<>>, deleted |-> <<>>,
                               untracked |-> <<>>],
                   diff |-> TextDiff("")]
    /\ suggestions = <<>>

CommandIdle ==
    /\ cPc = "idle"
    /\ cFile = NoDirectory
    /\ cOptions = [stagedOnly |-> FALSE, files |-> "", dryRun |-> FALSE,
                   interactive |-> FALSE, format |-> Undefined]
    /\ cHasChanges = FALSE
    /\ cGenerated = FALSE
    /\ cMessage = ""
    /\ cChoice = "none"
    /\ cOperation = "none"
    /\ gitOps = <<>>
    /\ exitCode = Running
    /\ cError = ""

ConfigIdle ==
    /\ cfgFile = NoDirectory
    /\ cfgCalls = 0
    /\ cfgOp = "idle"
    /\ cfgArg = NoArgument
    /\ cfgAt = "idle"
    /\ cfgConfig = EmptyObject
    /\ cfgResult = NotCalled
    /\ cfgPending = <<>>

AddProviderIdle ==
    /\ apFile = NoDirectory
    /\ apProvider = NoProvider
    /\ mPc = "idle"
    /\ mConfig = EmptyObject
    /\ bPc = "idle"
    /\ bProviders = <<>>
    /\ bConfig = EmptyObject
    /\ apEnded = "idle"

----------------------------------------------------------------------------
(* generateCommitMessage(options), one call: a step per await.             *)
(* diffSummary holds getDiffSummary's locals status and diff as they are   *)
(* read; git's answers are gitStatus, stagedDiff and workingDiff;          *)
(* changesReported is what hasChanges() answered at line 27, once asked.   *)

GenInit ==
    /\ pc = "start"
    /\ gitStatus \in RawStatuses
    /\ stagedDiff \in StagedDiffs
    /\ workingDiff \in WorkingDiffs
    \* git shows a diff only for paths its status lists
    /\ Trim(stagedDiff) # "" => Len(gitStatus.staged) > 0
    /\ Trim(workingDiff) # "" => Len(gitStatus.modified) > 0
    /\ diffSummary = NoSummary
    /\ options \in GenerateOptions
    /\ changesReported = "unasked"
    /\ prompt = ""
    /\ backendCalls = 0
    /\ backendText = ""
    /\ result = ""
    /\ error = ""
    /\ TruncIdle /\ PostIdle /\ ValidIdle /\ SuggestIdle /\ CommandIdle
    /\ ConfigIdle /\ AddProviderIdle

GenFrame == UNCHANGED <<gitStatus, stagedDiff, workingDiff, options,
                        truncVars, postVars, validVars,
                        suggestVars, commandVars,
                        configVars, addProviderVars>>
NotAsked == UNCHANGED changesReported

\* getStatus: git.status() answers
StatusRead ==
    /\ pc = "start"
    /\ diffSummary' = [diffSummary EXCEPT !.status = getStatus(gitStatus)]
    /\ pc' = "diffCached"
    /\ UNCHANGED <<prompt, backendCalls, backendText, result, error>>
    /\ NotAsked
    /\ GenFrame

\* getStatus: git.status() throws; getStatus and getDiffSummary wrap it
StatusFails ==
    /\ pc = "start"
    /\ error' = DiffSummaryFailure(StatusFailure(VcsMessage))
    /\ pc' = "failed"
    /\ UNCHANGED <<diffSummary, prompt, backendCalls, backendText, result>>
    /\ NotAsked
    /\ GenFrame

\* getDiff asking for the working-tree diff only when the staged diff is the
\* empty string
DiffCachedReadUntrimmed ==
    /\ pc = "diffCached"
    /\ IF stagedDiff = ""
       THEN pc' = "diffWorking" /\ UNCHANGED diffSummary
       ELSE /\ diffSummary' = [diffSummary EXCEPT !.diff = stagedDiff]
            /\ pc' = "check"
    /\ UNCHANGED <<prompt, backendCalls, backendText, result, error>>
    /\ NotAsked
    /\ GenFrame

\* getDiff: git.diff(['--cached']) answers; a blank answer asks git.diff()
DiffCachedRead ==
    /\ pc = "diffCached"
    /\ IF Trim(stagedDiff) = ""
       THEN pc' = "diffWorking" /\ UNCHANGED diffSummary
       ELSE /\ diffSummary' = [diffSummary EXCEPT !.diff = stagedDiff]
            /\ pc' = "check"
    /\ UNCHANGED <<prompt, backendCalls, backendText, result, error>>
    /\ NotAsked
    /\ GenFrame

\* getDiff: git.diff() answers
DiffWorkingRead ==
    /\ pc = "diffWorking"
    /\ diffSummary' = [diffSummary EXCEPT !.diff = workingDiff]
    /\ pc' = "check"
    /\ UNCHANGED <<prompt, backendCalls, backendText, result, error>>
    /\ NotAsked
    /\ GenFrame

\* getDiff: either query throws; getDiff and getDiffSummary wrap it
DiffFails ==
    /\ pc \in {"diffCached", "diffWorking"}
    /\ error' = DiffSummaryFailure(DiffFailure(VcsMessage))
    /\ pc' = "failed"
    /\ UNCHANGED <<diffSummary, prompt, backendCalls, backendText, result>>
    /\ NotAsked
    /\ GenFrame

\* lines 27-35: the no-changes check, then the prompt and the backend call
CheckAndAsk ==
    /\ pc = "check"
    /\ changesReported' = IF diffSummary.status.hasChanges THEN "yes" ELSE "no"
    /\ IF ~diffSummary.status.hasChanges
       THEN /\ error' = NoChangesError
            /\ pc' = "failed"
            /\ UNCHANGED <<prompt, backendCalls>>
       ELSE /\ prompt' = buildPrompt(diffSummary, options)
            /\ backendCalls' = backendCalls + 1
            /\ pc' = "awaitBackend"
            /\ UNCHANGED error
    /\ UNCHANGED <<diffSummary, backendText, result>>
    /\ GenFrame

\* agent.generate resolves: the chained callback returns the message
BackendAnswers ==
    /\ pc = "awaitBackend"
    /\ \E text \in BackendTexts :
        /\ backendText' = text
        /\ result' = onGenerated([text |-> text], options)
    /\ pc' = "returned"
    /\ UNCHANGED <<diffSummary, prompt, backendCalls, error>>
    /\ NotAsked
    /\ GenFrame

\* agent.generate rejects and the call asks again (a retry loop the source
\* does not have)
BackendFailsRetrying ==
    /\ pc = "awaitBackend"
    /\ error' = BackendMessage
    /\ pc' = "check"
    /\ UNCHANGED <<diffSummary, prompt, backendCalls, backendText, result>>
    /\ NotAsked
    /\ GenFrame

\* agent.generate rejects: the rejection is the call's
BackendFails ==
    /\ pc = "awaitBackend"
    /\ error' = BackendMessage
    /\ pc' = "failed"
    /\ UNCHANGED <<diffSummary, prompt, backendCalls, backendText, result>>
    /\ NotAsked
    /\ GenFrame

Next ==
    \/ StatusRead
    \/ StatusFails
    \/ DiffCachedRead
    \/ DiffWorkingRead
    \/ DiffFails
    \/ CheckAndAsk
    \/ BackendAnswers
    \/ BackendFails

Spec == GenInit /\ [][Next]_vars

----------------------------------------------------------------------------
(* truncateDiff on every diff and budget of the bounds, then on its result. *)

TruncInit ==
    /\ tStage = "input"
    /\ tDiff \in DiffInputs
    /\ tMax \in DiffBudgets
    /\ tOnce = ""
    /\ tTwice = ""
    /\ GenIdle /\ PostIdle /\ ValidIdle /\ SuggestIdle /\ CommandIdle
    /\ ConfigIdle /\ AddProviderIdle

TruncateOnce ==
    /\ tStage = "input"
    /\ tOnce' = truncateDiff(tDiff, tMax)
    /\ tStage' = "once"
    /\ UNCHANGED <<tDiff, tMax, tTwice, genVars, postVars, validVars,
                   suggestVars, commandVars,
                   configVars, addProviderVars>>

TruncateAgain ==
    /\ tStage = "once"
    /\ tTwice' = truncateDiff(tOnce, tMax)
    /\ tStage' = "twice"
    /\ UNCHANGED <<tDiff, tMax, tOnce, genVars, postVars, validVars,
                   suggestVars, commandVars,
                   configVars, addProviderVars>>

TruncNext == TruncateOnce \/ TruncateAgain

SpecTruncate == TruncInit /\ [][TruncNext]_vars

----------------------------------------------------------------------------
(* postProcessMessage on every raw text and maxLength of the bounds.       *)

PostInit ==
    /\ pStage = "input"
    /\ pRaw \in RawInputs
    /\ pOptions \in {OptionsOf(Undefined, l, 0) : l \in 0..MaxBudget}
    /\ pOut = ""
    /\ GenIdle /\ TruncIdle /\ ValidIdle /\ SuggestIdle /\ CommandIdle
    /\ ConfigIdle /\ AddProviderIdle

PostProcess ==
    /\ pStage = "input"
    /\ pOut' = postProcessMessage(pRaw, pOptions)
    /\ pStage' = "done"
    /\ UNCHANGED <<pRaw, pOptions, genVars, truncVars, validVars,
                   suggestVars, commandVars,
                   configVars, addProviderVars>>

PostNext == PostProcess

SpecPostProcess == PostInit /\ [][PostNext]_vars

----------------------------------------------------------------------------
(* validateMessage on the messages of MessageInputs under every format.    *)

ValidInit ==
    /\ vStage = "input"
    /\ vMessage \in MessageInputs
    /\ vFormat \in Formats \cup {Undefined}
    /\ validation = NewValidation
    /\ GenIdle /\ TruncIdle /\ PostIdle /\ SuggestIdle /\ CommandIdle
    /\ ConfigIdle /\ AddProviderIdle

Validate ==
    /\ vStage = "input"
    /\ validation' = validateMessage(vMessage, vFormat)
    /\ vStage' = "done"
    /\ UNCHANGED <<vMessage, vFormat, genVars, truncVars, postVars,
                   suggestVars, commandVars,
                   configVars, addProviderVars>>

ValidNext == Validate

SpecValidate == ValidInit /\ [][ValidNext]_vars

----------------------------------------------------------------------------
(* getSuggestions(message, diffSummary), one call. *)

SuggestInit ==
    /\ sStage = "input"
    /\ sMessage \in SuggestMessages
    /\ sSummary \in SuggestSummaries
    /\ suggestions = <<>>
    /\ GenIdle /\ TruncIdle /\ PostIdle /\ ValidIdle /\ CommandIdle
    /\ ConfigIdle /\ AddProviderIdle

Suggest ==
    /\ sStage = "input"
    /\ suggestions' = getSuggestions(sMessage, sSummary)
    /\ sStage' = "done"
    /\ UNCHANGED <<sMessage, sSummary, genVars, truncVars, postVars, validVars,
                   commandVars,
                   configVars, addProviderVars>>

SuggestNext == Suggest

SpecSuggest == SuggestInit /\ [][SuggestNext]_vars

----------------------------------------------------------------------------
(* The commit command's action, one run: a step per await. gitOps is what  *)
(* the run asked git to write, in order; exitCode is the code the process  *)
(* exited with; cError is the message of the error the catch block caught; *)
(* cGenerated tells that line 75 reported the generated message;           *)
(* cOperation is the GitManager commit operation the action called.        *)

CommandInit ==
    /\ cPc = "start"
    /\ cFile \in CommandFiles
    /\ cOptions \in CommandOptions
    /\ cHasChanges \in BOOLEAN
    /\ cGenerated = FALSE
    /\ cMessage = ""
    /\ cChoice = "none"
    /\ cOperation = "none"
    /\ gitOps = <<>>
    /\ exitCode = Running
    /\ cError = ""
    /\ GenIdle /\ TruncIdle /\ PostIdle /\ ValidIdle /\ SuggestIdle
    /\ ConfigIdle /\ AddProviderIdle

CommandFrame == UNCHANGED <<cOptions, cHasChanges, genVars, truncVars, postVars,
                            validVars, suggestVars, configVars,
                            addProviderVars>>

\* process.exit(code), or the action returning
Exits(code) ==
    /\ cPc' = "exited"
    /\ exitCode' = code
    /\ UNCHANGED cError

\* the catch block of lines 133-139: handleError ends in process.exit(1)
Caught(message) ==
    /\ cPc' = "exited"
    /\ exitCode' = ExitFailure
    /\ cError' = message

\* lines 45-51: getDefaultProvider gives a provider (its getConfig creates
\* an absent file), and the agent and generator are built
Setup ==
    /\ cPc = "start"
    /\ getDefaultProvider(getConfig(cFile)).kind = "provider"
    /\ cFile' = fileAfterGetConfig(cFile)
    /\ cPc' = "status"
    /\ UNCHANGED <<cGenerated, cMessage, cChoice, gitOps, exitCode, cError>>
    /\ UNCHANGED cOperation
    /\ CommandFrame

\* getDefaultProvider resolves null and createGitAgent's getModel(null)
\* reads config.type, or getDefaultProvider itself throws on a config
\* without providers; the catch block reports the TypeError
SetupFails ==
    /\ cPc = "start"
    /\ getDefaultProvider(getConfig(cFile)).kind # "provider"
    /\ cFile' = fileAfterGetConfig(cFile)
    /\ Caught(IF getDefaultProvider(getConfig(cFile)).kind = "null"
              THEN NullProviderMessage ELSE NoProvidersMessage)
    /\ UNCHANGED <<cGenerated, cMessage, cChoice, gitOps>>
    /\ UNCHANGED cOperation
    /\ CommandFrame

\* lines 54-58: the status is read and asked for changes
CommandStatusRead ==
    /\ cPc = "status"
    /\ IF cHasChanges
       THEN cPc' = "generate" /\ UNCHANGED <<exitCode, cError>>
       ELSE Exits(ExitFailure)
    /\ UNCHANGED <<cGenerated, cMessage, cChoice, gitOps>>
    /\ UNCHANGED <<cOperation, cFile>>
    /\ CommandFrame

CommandStatusFails ==
    /\ cPc = "status"
    /\ Caught(StatusFailure(VcsMessage))
    /\ UNCHANGED <<cGenerated, cMessage, cChoice, gitOps>>
    /\ UNCHANGED <<cOperation, cFile>>
    /\ CommandFrame

\* lines 70-81: generateCommitMessage resolves
Generate ==
    /\ cPc = "generate"
    /\ \E text \in BackendTexts :
          cMessage' = postProcessMessage(
                          text, OptionsOf(FormatOrDefault(cOptions.format),
                                          CommitMaxLength, 0))
    /\ cGenerated' = TRUE
    /\ cPc' = IF cOptions.interactive THEN "ask" ELSE "settled"
    /\ UNCHANGED <<cChoice, gitOps, exitCode, cError>>
    /\ UNCHANGED <<cOperation, cFile>>
    /\ CommandFrame

\* generateCommitMessage rejects
GenerateFails ==
    /\ cPc = "generate"
    /\ \E message \in {NoChangesError,
                       DiffSummaryFailure(StatusFailure(VcsMessage)),
                       DiffSummaryFailure(DiffFailure(VcsMessage)),
                       BackendMessage} :
          Caught(message)
    /\ UNCHANGED <<cGenerated, cMessage, cChoice, gitOps>>
    /\ UNCHANGED <<cOperation, cFile>>
    /\ CommandFrame

\* lines 82-98: the user picks what to do with the message
Ask ==
    /\ cPc = "ask"
    /\ \E action \in {"use", "edit", "cancel"} :
          /\ cChoice' = action
          /\ IF action = "cancel" THEN Exits(ExitSuccess)
             ELSE /\ cPc' = IF action = "edit" THEN "edit" ELSE "settled"
                  /\ UNCHANGED <<exitCode, cError>>
    /\ UNCHANGED <<cGenerated, cMessage, gitOps>>
    /\ UNCHANGED <<cOperation, cFile>>
    /\ CommandFrame

\* lines 99-107: the editor returns the edited message
Edit ==
    /\ cPc = "edit"
    /\ \E text \in EditedTexts : cMessage' = Trim(text)
    /\ cPc' = "settled"
    /\ UNCHANGED <<cGenerated, cChoice, gitOps, exitCode, cError>>
    /\ UNCHANGED <<cOperation, cFile>>
    /\ CommandFrame

\* inquirer.prompt rejects
PromptFails ==
    /\ cPc \in {"ask", "edit"}
    /\ Caught(PromptMessage)
    /\ UNCHANGED <<cGenerated, cMessage, cChoice, gitOps>>
    /\ UNCHANGED <<cOperation, cFile>>
    /\ CommandFrame

\* lines 112-131: the dry run ends here, a commit starts its operation
Settle ==
    /\ cPc = "settled"
    /\ IF commitBranch(cOptions) = "dryRun"
       THEN Exits(ExitSuccess)
       ELSE cPc' = commitBranch(cOptions) /\ UNCHANGED <<exitCode, cError>>
    /\ cOperation' = operationOf(commitBranch(cOptions))
    /\ UNCHANGED cFile
    /\ UNCHANGED <<cGenerated, cMessage, cChoice, gitOps>>
    /\ CommandFrame

\* commitFiles checking its first file only
AccessFilesFirstOnly ==
    /\ cPc = "accessFiles"
    /\ LET files == filesOf(cOptions.files)
       IN  IF files[1] \in ExistingFiles
           THEN cPc' = "addFiles" /\ UNCHANGED <<exitCode, cError>>
           ELSE Caught(CommitFilesFailure(FileNotFound(files[1])))
    /\ UNCHANGED <<cGenerated, cMessage, cChoice, gitOps>>
    /\ UNCHANGED <<cOperation, cFile>>
    /\ CommandFrame

\* commitFiles: fs.access on every file, in order
AccessFiles ==
    /\ cPc = "accessFiles"
    /\ LET files == filesOf(cOptions.files)
           missing == {i \in 1..Len(files) : files[i] \notin ExistingFiles}
       IN  IF missing = {}
           THEN cPc' = "addFiles" /\ UNCHANGED <<exitCode, cError>>
           ELSE Caught(CommitFilesFailure(FileNotFound(files[Min(missing)])))
    /\ UNCHANGED <<cGenerated, cMessage, cChoice, gitOps>>
    /\ UNCHANGED <<cOperation, cFile>>
    /\ CommandFrame

\* commitFiles: git.add(files)
AddFiles ==
    /\ cPc = "addFiles"
    /\ gitOps' = Append(gitOps, AddOp(filesOf(cOptions.files)))
    /\ cPc' = "commitFiles"
    /\ UNCHANGED <<cGenerated, cMessage, cChoice, exitCode, cError>>
    /\ UNCHANGED <<cOperation, cFile>>
    /\ CommandFrame

\* commitAll: git.add('.')
AddAll ==
    /\ cPc = "addAll"
    /\ gitOps' = Append(gitOps, AddOp(<<".">>))
    /\ cPc' = "commitAll"
    /\ UNCHANGED <<cGenerated, cMessage, cChoice, exitCode, cError>>
    /\ UNCHANGED <<cOperation, cFile>>
    /\ CommandFrame

\* git.commit(message) of commitStaged, commitFiles or commitAll; the action
\* then returns
Commit ==
    /\ cPc \in {"commitStaged", "commitFiles", "commitAll"}
    /\ gitOps' = Append(gitOps, CommitOp(cMessage))
    /\ Exits(ExitSuccess)
    /\ UNCHANGED <<cGenerated, cMessage, cChoice>>
    /\ UNCHANGED <<cOperation, cFile>>
    /\ CommandFrame

\* git.add or git.commit rejects; the operation's catch wraps the message
GitWriteFails ==
    /\ cPc \in {"addFiles", "addAll", "commitStaged", "commitFiles", "commitAll"}
    /\ Caught(IF cPc = "commitStaged" THEN CommitStagedFailure(VcsMessage)
              ELSE IF cPc \in {"addFiles", "commitFiles"}
                   THEN CommitFilesFailure(VcsMessage)
              ELSE CommitAllFailure(VcsMessage))
    /\ UNCHANGED <<cGenerated, cMessage, cChoice, gitOps>>
    /\ UNCHANGED <<cOperation, cFile>>
    /\ CommandFrame

CommandNext ==
    \/ Setup
    \/ SetupFails
    \/ CommandStatusRead
    \/ CommandStatusFails
    \/ Generate
    \/ GenerateFails
    \/ Ask
    \/ Edit
    \/ PromptFails
    \/ Settle
    \/ AccessFiles
    \/ AddFiles
    \/ AddAll
    \/ Commit
    \/ GitWriteFails

SpecCommit == CommandInit /\ [][CommandNext]_vars

----------------------------------------------------------------------------
(* ConfigManager's operations on one file. The caller awaits each call     *)
(* before the next (cfgOp, cfgArg, cfgAt, cfgConfig, cfgResult: the call,  *)
(* its argument, where it is, its local config and what it gave), a step   *)
(* per file read, open and write. addProvider does not await the setConfig *)
(* it calls: cfgPending holds those still running, which take their steps  *)
(* between the caller's. A file is absent only while none is running, so   *)
(* getConfig's creation of the file is one step.                           *)

ConfigInit ==
    /\ cfgFile \in ConfigFiles
    /\ cfgCalls = 0
    /\ cfgOp = "none"
    /\ cfgArg = NoArgument
    /\ cfgAt = "returned"
    /\ cfgConfig = EmptyObject
    /\ cfgResult = NotCalled
    /\ cfgPending = <<>>
    /\ GenIdle /\ TruncIdle /\ PostIdle /\ ValidIdle /\ SuggestIdle
    /\ CommandIdle /\ AddProviderIdle

ConfigFrame == UNCHANGED <<genVars, truncVars, postVars, validVars, suggestVars,
                           commandVars, addProviderVars>>

\* the caller makes its next call
Called ==
    /\ cfgAt = "returned"
    /\ cfgCalls < MaxCalls
    /\ cfgCalls' = cfgCalls + 1

\* a call that has not resolved yet
Awaited == [kind |-> "pending", provider |-> NoProvider]

\* getConfig()
CallGetConfig ==
    /\ Called
    /\ cfgConfig' = getConfig(cfgFile)
    /\ cfgFile' = fileAfterGetConfig(cfgFile)
    /\ cfgOp' = "getConfig"
    /\ cfgArg' = NoArgument
    /\ cfgResult' = ReturnedConfig
    /\ UNCHANGED <<cfgAt, cfgPending>>
    /\ ConfigFrame

\* getLlmProviders(), lines 88-92
CallGetLlmProviders ==
    /\ Called
    /\ cfgConfig' = getConfig(cfgFile)
    /\ cfgResult' = getLlmProviders(getConfig(cfgFile))
    /\ cfgFile' = fileAfterGetConfig(cfgFile)
    /\ cfgOp' = "getLlmProviders"
    /\ cfgArg' = NoArgument
    /\ UNCHANGED <<cfgAt, cfgPending>>
    /\ ConfigFrame

\* setConfig(key, value), lines 75-76: getConfig and config[key] = value
CallSetConfig ==
    /\ Called
    /\ \E key \in ConfigKeys :
         /\ \E value \in SetConfigValues(key) :
              cfgConfig' = assignKey(getConfig(cfgFile), key, value)
         /\ cfgArg' = KeyArgument(key)
    /\ cfgFile' = fileAfterGetConfig(cfgFile)
    /\ cfgOp' = "setConfig"
    /\ cfgAt' = "open"
    /\ cfgResult' = Awaited
    /\ UNCHANGED cfgPending
    /\ ConfigFrame

\* removeConfig(key), lines 135-136: getConfig and delete config[key]
CallRemoveConfig ==
    /\ Called
    /\ \E key \in ConfigKeys :
         /\ cfgConfig' = deleteKey(getConfig(cfgFile), key)
         /\ cfgArg' = KeyArgument(key)
    /\ cfgFile' = fileAfterGetConfig(cfgFile)
    /\ cfgOp' = "removeConfig"
    /\ cfgAt' = "open"
    /\ cfgResult' = Awaited
    /\ UNCHANGED cfgPending
    /\ ConfigFrame

\* clearConfig(), line 145: writeFile with no mkdir before it opens the
\* file, and rejects with ENOENT where ~/.gait does not exist
CallClearConfig ==
    /\ Called
    /\ cfgOp' = "clearConfig"
    /\ cfgArg' = NoArgument
    /\ cfgConfig' = EmptyObject
    /\ IF cfgFile.dir
       THEN /\ cfgFile' = opened(cfgFile)
            /\ cfgAt' = "write"
            /\ cfgResult' = Awaited
       ELSE /\ cfgResult' = ThrewNoEntry
            /\ UNCHANGED <<cfgFile, cfgAt>>
    /\ UNCHANGED cfgPending
    /\ ConfigFrame

\* setConfig line 79-82 (mkdir of the directory getConfig has left,
\* then writeFile) and removeConfig line 138: the file is opened
CallOpens ==
    /\ cfgAt = "open"
    /\ cfgFile' = opened(cfgFile)
    /\ cfgAt' = "write"
    /\ UNCHANGED <<cfgCalls, cfgOp, cfgArg, cfgConfig, cfgResult, cfgPending>>
    /\ ConfigFrame

\* the text of the call's config is written and the call resolves
CallWrites ==
    /\ cfgAt = "write"
    /\ cfgFile' = written(cfgFile, cfgConfig)
    /\ cfgAt' = "returned"
    /\ cfgResult' = ReturnedVoid
    /\ UNCHANGED <<cfgCalls, cfgOp, cfgArg, cfgConfig, cfgPending>>
    /\ ConfigFrame

\* addProvider(provider), lines 121-128: getConfig, the new list, and
\* setConfig('providers', providers) called and left running
CallAddProvider ==
    /\ Called
    /\ Len(cfgPending) < MaxPending
    /\ Len(getConfig(cfgFile).providers) < MaxProviders
    /\ \E provider \in Providers :
         /\ cfgArg' = ProviderArgument(provider)
         /\ IF canSpreadProviders(getConfig(cfgFile))
            THEN /\ cfgPending' =
                       Append(cfgPending,
                              SetConfigTask("read",
                                            Append(getConfig(cfgFile).providers,
                                                   provider),
                                            EmptyObject))
                 /\ cfgResult' = ReturnedVoid
            ELSE /\ cfgResult' = ThrewTypeError
                 /\ UNCHANGED cfgPending
    /\ cfgConfig' = getConfig(cfgFile)
    /\ cfgFile' = fileAfterGetConfig(cfgFile)
    /\ cfgOp' = "addProvider"
    /\ UNCHANGED cfgAt
    /\ ConfigFrame

\* getDefaultProvider(), lines 100-117
CallGetDefaultProvider ==
    /\ Called
    /\ cfgConfig' = getConfig(cfgFile)
    /\ cfgResult' = getDefaultProvider(getConfig(cfgFile))
    /\ cfgFile' = fileAfterGetConfig(cfgFile)
    /\ cfgOp' = "getDefaultProvider"
    /\ cfgArg' = NoArgument
    /\ UNCHANGED <<cfgAt, cfgPending>>
    /\ ConfigFrame

CallFrame == UNCHANGED <<cfgCalls, cfgOp, cfgArg, cfgAt, cfgConfig, cfgResult>>

\* cfgPending without its i-th task
WithoutTask(i) ==
    SubSeq(cfgPending, 1, i - 1) \o SubSeq(cfgPending, i + 1, Len(cfgPending))

\* a setConfig left running, lines 75-76: getConfig and the assignment
PendingReads ==
    /\ \E i \in 1..Len(cfgPending) :
         /\ cfgPending[i].at = "read"
         /\ cfgPending' =
                [cfgPending EXCEPT ![i] =
                    SetConfigTask("open", @.providers,
                                  assignKey(getConfig(cfgFile), "providers",
                                            @.providers))]
    /\ UNCHANGED cfgFile
    /\ CallFrame
    /\ ConfigFrame

\* a setConfig left running, lines 79-82: mkdir, and the file is opened
PendingOpens ==
    /\ \E i \in 1..Len(cfgPending) :
         /\ cfgPending[i].at = "open"
         /\ cfgPending' = [cfgPending EXCEPT ![i].at = "write"]
    /\ cfgFile' = opened(cfgFile)
    /\ CallFrame
    /\ ConfigFrame

\* a setConfig left running: its text is written and it is over
PendingWrites ==
    /\ \E i \in 1..Len(cfgPending) :
         /\ cfgPending[i].at = "write"
         /\ cfgFile' = written(cfgFile, cfgPending[i].config)
         /\ cfgPending' = WithoutTask(i)
    /\ CallFrame
    /\ ConfigFrame

ConfigNext ==
    \/ CallGetConfig
    \/ CallGetLlmProviders
    \/ CallSetConfig
    \/ CallRemoveConfig
    \/ CallClearConfig
    \/ CallOpens
    \/ CallWrites
    \/ CallAddProvider
    \/ CallGetDefaultProvider
    \/ PendingReads
    \/ PendingOpens
    \/ PendingWrites

SpecConfig == ConfigInit /\ [][ConfigNext]_vars

----------------------------------------------------------------------------
(* The add-provider command, one run, a step per file read, open or write. *)
(* addProvider awaits its own getConfig and then calls setConfig without   *)
(* awaiting it: that setConfig goes on (bPc) while the action goes on to   *)
(* its own getConfig, prompt and setConfig (mPc). mConfig and bConfig are  *)
(* the config locals of the two; apFile is the file both read and write.   *)

AddProviderInit ==
    /\ apFile \in AddProviderFiles
    /\ apProvider \in NewProviders
    /\ mPc = "addProvider"
    /\ mConfig = EmptyObject
    /\ bPc = "idle"
    /\ bProviders = <<>>
    /\ bConfig = EmptyObject
    /\ apEnded = "running"
    /\ GenIdle /\ TruncIdle /\ PostIdle /\ ValidIdle /\ SuggestIdle
    /\ CommandIdle /\ ConfigIdle

AddProviderFrame == UNCHANGED <<apProvider, genVars, truncVars, postVars,
                                validVars, suggestVars, commandVars,
                                configVars>>

\* config.manager.ts 121-128: getConfig is awaited, the new list is built
\* and setConfig('providers', providers) is started; addProvider returns
AddProviderStarts ==
    /\ mPc = "addProvider"
    /\ canSpreadProviders(getConfig(apFile))
    /\ mConfig' = getConfig(apFile)
    /\ apFile' = fileAfterGetConfig(apFile)
    /\ bProviders' = Append(getConfig(apFile).providers, apProvider)
    /\ bPc' = "read"
    /\ mPc' = "getConfig"
    /\ UNCHANGED <<bConfig, apEnded>>
    /\ AddProviderFrame

\* line 124 throws on a config without providers; the action's catch block
\* hands the error to handleError, which ends in process.exit(1)
AddProviderThrows ==
    /\ mPc = "addProvider"
    /\ ~canSpreadProviders(getConfig(apFile))
    /\ mConfig' = getConfig(apFile)
    /\ apFile' = fileAfterGetConfig(apFile)
    /\ mPc' = "done"
    /\ apEnded' = "failed"
    /\ UNCHANGED <<bPc, bProviders, bConfig>>
    /\ AddProviderFrame

\* the started setConfig, lines 75-76: getConfig, then config[key] = value
BackgroundReads ==
    /\ bPc = "read"
    /\ bConfig' = assignKey(getConfig(apFile), "providers", bProviders)
    /\ bPc' = "open"
    /\ UNCHANGED <<apFile, mPc, mConfig, bProviders, apEnded>>
    /\ AddProviderFrame

\* the started setConfig, lines 79-82: mkdir, and writeFile opens the file
BackgroundOpens ==
    /\ bPc = "open"
    /\ apFile' = opened(apFile)
    /\ bPc' = "write"
    /\ UNCHANGED <<mPc, mConfig, bProviders, bConfig, apEnded>>
    /\ AddProviderFrame

\* the started setConfig: writeFile writes its text
BackgroundWrites ==
    /\ bPc = "write"
    /\ apFile' = written(apFile, bConfig)
    /\ bPc' = "done"
    /\ UNCHANGED <<mPc, mConfig, bProviders, bConfig, apEnded>>
    /\ AddProviderFrame

\* part_002 457-458: the action reads the config; a default already set
\* ends it
ActionReads ==
    /\ mPc = "getConfig"
    /\ mConfig' = getConfig(apFile)
    /\ IF getConfig(apFile).defaultProvider # ""
       THEN mPc' = "done" /\ apEnded' = "added"
       ELSE mPc' = "prompt" /\ UNCHANGED apEnded
    /\ UNCHANGED <<apFile, bPc, bProviders, bConfig>>
    /\ AddProviderFrame

\* part_002 459-468: the confirm prompt is answered
PromptAnswered ==
    /\ mPc = "prompt"
    /\ \E setAsDefault \in BOOLEAN :
         IF setAsDefault
         THEN mPc' = "setConfig" /\ UNCHANGED apEnded
         ELSE mPc' = "done" /\ apEnded' = "added"
    /\ UNCHANGED <<apFile, mConfig, bPc, bProviders, bConfig>>
    /\ AddProviderFrame

\* the prompt rejects: the catch block's handleError ends the process, and
\* with it a setConfig that has not finished
PromptRejects ==
    /\ mPc = "prompt"
    /\ mPc' = "done"
    /\ apEnded' = "failed"
    /\ bPc' = IF bPc \in {"read", "open", "write"} THEN "killed" ELSE bPc
    /\ UNCHANGED <<apFile, mConfig, bProviders, bConfig>>
    /\ AddProviderFrame

\* part_002 469, setConfig('defaultProvider', provider.name), lines 75-76
SetDefaultReads ==
    /\ mPc = "setConfig"
    /\ mConfig' = assignKey(getConfig(apFile), "defaultProvider",
                            apProvider.name)
    /\ mPc' = "open"
    /\ UNCHANGED <<apFile, bPc, bProviders, bConfig, apEnded>>
    /\ AddProviderFrame

\* the same setConfig, lines 79-82: mkdir, and writeFile opens the file
SetDefaultOpens ==
    /\ mPc = "open"
    /\ apFile' = opened(apFile)
    /\ mPc' = "write"
    /\ UNCHANGED <<mConfig, bPc, bProviders, bConfig, apEnded>>
    /\ AddProviderFrame

\* the same setConfig: writeFile writes its text and the action ends
SetDefaultWrites ==
    /\ mPc = "write"
    /\ apFile' = written(apFile, mConfig)
    /\ mPc' = "done"
    /\ apEnded' = "defaultSet"
    /\ UNCHANGED <<mConfig, bPc, bProviders, bConfig>>
    /\ AddProviderFrame

AddProviderNext ==
    \/ AddProviderStarts
    \/ AddProviderThrows
    \/ BackgroundReads
    \/ BackgroundOpens
    \/ BackgroundWrites
    \/ ActionReads
    \/ PromptAnswered
    \/ PromptRejects
    \/ SetDefaultReads
    \/ SetDefaultOpens
    \/ SetDefaultWrites

SpecAddProvider == AddProviderInit /\ [][AddProviderNext]_vars

----------------------------------------------------------------------------
(* Claims about generateCommitMessage, under Spec. *)

NoPathsChanged ==
    /\ gitStatus.staged = <<>>
    /\ gitStatus.modified = <<>>
    /\ gitStatus.deleted = <<>>
    /\ gitStatus.not_added = <<>>

\* C1: once hasChanges() has been asked, it reports no changes for a
\* snapshot whose added, modified, deleted and untracked lists are all empty,
\* and whenever it reports no changes the call has failed with the
\* no-changes error, the backend was never invoked, no prompt was built and
\* nothing is returned.
C1_NoChangesNeverReachesBackend ==
    /\ (changesReported # "unasked" /\ NoPathsChanged) => changesReported = "no"
    /\ changesReported = "no" =>
          /\ pc = "failed"
          /\ error = NoChangesError
          /\ backendCalls = 0
          /\ prompt = ""
          /\ result = ""

C1_Witness ==
    /\ pc = "failed"
    /\ changesReported = "no"
    /\ gitStatus.conflicted # <<>>
    /\ error = NoChangesError

\* C3: a value the call returns is postProcessMessage applied to the text
\* the backend answered in this call, under the call's options.
C3_ReturnsProcessedText ==
    pc = "returned" => result = postProcessMessage(backendText, options)

C3_Witness ==
    /\ pc = "returned"
    /\ backendCalls = 1
    /\ result # backendText
    /\ result = postProcessMessage(backendText, options)

----------------------------------------------------------------------------
(* Claims about truncateDiff, under SpecTruncate. *)

\* the offset of the last newline within the first tMax characters of tDiff
LastNewlineInBudget == LastIndexOf(Substring(tDiff, 0, tMax), "\n")

\* the first truncation cut tDiff at a newline
CutAtNewline ==
    /\ Len(tDiff) > tMax
    /\ 5 * LastNewlineInBudget > 4 * tMax

\* the first truncation cut at a newline at least two characters before the
\* budget, and its result is longer than the budget
CutAtEarlyNewline ==
    /\ CutAtNewline
    /\ LastNewlineInBudget + 2 <= tMax
    /\ tMax < LastNewlineInBudget + 2 + 24

\* C4, as stated: truncating the result of a truncation changes nothing.
C4_Idempotent ==
    tStage = "twice" => tTwice = tOnce

\* C4, amended: truncating the result of a truncation changes nothing,
\* except when the first truncation cut at a newline at offset p with
\* p + 2 <= m < p + 26: the second truncation then cuts at the marker's
\* first newline, offset p + 1, and returns the first p characters, a
\* newline and the marker.
C4_IdempotentUnlessEarlyNewline ==
    tStage = "twice" =>
        IF CutAtEarlyNewline
        THEN /\ tTwice # tOnce
             /\ tOnce = Substring(tDiff, 0, LastNewlineInBudget) \o TruncationMarker
             /\ tTwice = Substring(tDiff, 0, LastNewlineInBudget) \o "\n" \o TruncationMarker
        ELSE tTwice = tOnce

C4_Witness ==
    /\ tStage = "twice"
    /\ CutAtNewline
    /\ LastNewlineInBudget = tMax - 1
    /\ tOnce = Substring(tDiff, 0, tMax - 1) \o TruncationMarker
    /\ tTwice = tOnce

\* C5: the result of truncateDiff(d, m), m >= 1, is at most m + 24 + 2
\* characters long.
C5_LengthBound ==
    (tStage # "input" /\ tMax >= 1) => Len(tOnce) <= tMax + 24 + 2

C5_Witness ==
    /\ tStage = "once"
    /\ Len(tDiff) > tMax
    /\ Len(tOnce) = tMax + 24 + 2

\* C6: a diff no longer than the budget is returned unchanged.
C6_NoOpBelowBudget ==
    (tStage # "input" /\ Len(tDiff) <= tMax) => tOnce = tDiff

C6_Witness ==
    /\ tStage = "once"
    /\ Len(tDiff) = tMax
    /\ LastIndexOf(tDiff, "\n") = tMax - 1
    /\ tOnce = tDiff

----------------------------------------------------------------------------
(* Claims about postProcessMessage, under SpecPostProcess. *)

\* the text before the first newline
FirstLineOf(text) == Substring(text, 0, IF IndexOf(text, "\n") = -1 THEN Len(text)
                                        ELSE IndexOf(text, "\n"))

\* the budget in force: options.maxLength, 50 when left out
Budget == IF pOptions.maxLength = 0 THEN 50 ELSE pOptions.maxLength

\* line 0 of the cleaned text: the subject line the budget is applied to
BudgetedSubject == FirstLineOf(cleanMessage(pRaw))

SubjectColon == IndexOf(BudgetedSubject, ":")

SubjectPrefix == Substring(BudgetedSubject, 0, SubjectColon + 1)

\* s without the white space it starts with
TrimStart(s) == SubstringFrom(s, LeadingWhiteSpace(s))

\* C2, as stated: the first line of the result is within the budget.
C2_SubjectWithinBudget ==
    (pStage = "done" /\ pOptions.maxLength >= 1) =>
        Len(FirstLineOf(pOut)) <= pOptions.maxLength

\* C7, as stated: a colon before offset L in the subject line being budgeted
\* means the first line of the result starts with that line's characters
\* up to and including the colon.
C7_PrefixPreserved ==
    (pStage = "done" /\ SubjectColon >= 0 /\ SubjectColon < Budget) =>
        StartsWithAt(FirstLineOf(pOut), SubjectPrefix, 0)

\* C7, amended: a colon before offset L in the subject line being budgeted
\* means that line 0 after the budget step starts with that line's
\* characters up to and including the colon, and the first line of the
\* result starts with the same characters less the white space the subject
\* line starts with, which the final trim removes.
C7_PrefixPreservedUpToLeadingSpace ==
    (pStage = "done" /\ SubjectColon >= 0 /\ SubjectColon < Budget) =>
        /\ StartsWithAt(limitFirstLine(BudgetedSubject, Budget), SubjectPrefix, 0)
        /\ StartsWithAt(FirstLineOf(pOut), TrimStart(SubjectPrefix), 0)

C7_Witness ==
    /\ pStage = "done"
    /\ Len(BudgetedSubject) > Budget
    /\ SubjectColon >= 1
    /\ SubjectColon < Budget
    /\ FirstLineOf(pOut) # BudgetedSubject
    /\ StartsWithAt(FirstLineOf(pOut), SubjectPrefix, 0)

----------------------------------------------------------------------------
(* Claims about validateMessage, under SpecValidate. *)

MessageFirstLine == FirstLineOf(vMessage)

\* type, an optional parenthesised scope, colon, space and a description,
\* the type one of the eleven
HasConventionalShape(line) ==
    \E type \in {"feat", "fix", "docs", "style", "refactor", "perf", "test",
                 "chore", "ci", "build", "revert"} :
        \E k \in Len(type)..(Len(line) - 3) :
            LET head == Substring(line, 0, k)
            IN  /\ \/ head = type
                   \/ /\ Len(head) >= Len(type) + 3
                      /\ Substring(head, 0, Len(type) + 1) = type \o "("
                      /\ Substring(head, k - 1, k) = ")"
                /\ Substring(line, k, k + 2) = ": "

\* C8: valid is true exactly when no error was recorded.
C8_ValidIffNoErrors ==
    vStage = "done" => (validation.valid <=> validation.errors = <<>>)

C8_Witness ==
    /\ vStage = "done"
    /\ validation.valid
    /\ validation.errors = <<>>
    /\ Len(validation.warnings) >= 3

\* C9: a first line longer than 72 characters makes the message invalid
\* under every format.
C9_TooLongIsInvalid ==
    (vStage = "done" /\ Len(MessageFirstLine) > 72) => validation.valid = FALSE

C9_Witness ==
    /\ vStage = "done"
    /\ vFormat = "simple"
    /\ Len(MessageFirstLine) = 73
    /\ validation.valid = FALSE
    /\ validation.errors = <<TooLongError>>

\* C10: a first line of at most 50 characters that, under the conventional
\* format, has the conventional shape yields no error and valid = TRUE.
C10_ShortConventionalIsValid ==
    (/\ vStage = "done"
     /\ Len(MessageFirstLine) <= 50
     /\ vFormat \in {"conventional", Undefined} => HasConventionalShape(MessageFirstLine))
    => (validation.errors = <<>> /\ validation.valid = TRUE)

C10_Witness ==
    /\ vStage = "done"
    /\ vFormat = "conventional"
    /\ vMessage = "feat(auth): add OAuth2 integration"
    /\ validation.errors = <<>>
    /\ validation.valid = TRUE

\* C11: within one generateCommitMessage call the backend is invoked at most
\* once; once the VCS reads have succeeded on a snapshot with changes it has
\* been invoked exactly once; a call that failed after invoking the backend
\* carries the backend's error, returns nothing and has invoked it once.
C11_BackendInvokedOnce ==
    /\ backendCalls <= 1
    /\ (changesReported # "unasked" /\ ~NoPathsChanged) => backendCalls = 1
    /\ pc \in {"awaitBackend", "returned"} => backendCalls = 1
    /\ (pc = "failed" /\ backendCalls > 0) =>
          /\ backendCalls = 1
          /\ error = BackendMessage
          /\ result = ""

C11_Witness ==
    /\ pc = "failed"
    /\ ~NoPathsChanged
    /\ backendCalls = 1
    /\ error = BackendMessage

\* the snapshot getStatus built has been read and is held by the call
SnapshotHeld == pc \in {"diffCached", "diffWorking", "check", "awaitBackend",
                        "returned"} \/ changesReported # "unasked"

SomeListedPath ==
    \/ diffSummary.status.added # <<>>
    \/ diffSummary.status.modified # <<>>
    \/ diffSummary.status.deleted # <<>>
    \/ diffSummary.status.untracked # <<>>

\* C15: hasChanges() of a snapshot is true exactly when one of its added,
\* modified, deleted or untracked lists is non-empty, and that is what the
\* call is told when it asks; for a snapshot whose only non-empty list is
\* conflicted the call, once it has asked, has failed with the no-changes
\* error.
C15_HasChangesIffListedPath ==
    SnapshotHeld =>
       /\ diffSummary.status.hasChanges <=> SomeListedPath
       /\ changesReported = "yes" => SomeListedPath
       /\ changesReported = "no" => ~SomeListedPath
       /\ (/\ changesReported # "unasked"
           /\ ~SomeListedPath
           /\ diffSummary.status.conflicted # <<>>) =>
             pc = "failed" /\ error = NoChangesError

C15_Witness ==
    /\ changesReported = "yes"
    /\ diffSummary.status.untracked # <<>>
    /\ diffSummary.status.added = <<>>
    /\ diffSummary.status.modified = <<>>
    /\ diffSummary.status.deleted = <<>>
    /\ diffSummary.status.conflicted # <<>>
    /\ pc = "returned"

\* the call failed before it asked hasChanges(): a VCS read threw
VcsReadFailed == pc = "failed" /\ changesReported = "unasked"

\* C19: when a VCS read (status or diff) fails, the call has failed with an
\* error whose message contains the VCS error's message, the backend was
\* never invoked, no prompt was built and nothing is returned.
C19_VcsFailurePropagates ==
    VcsReadFailed =>
       /\ Includes(error, VcsMessage)
       /\ backendCalls = 0
       /\ backendText = ""
       /\ prompt = ""
       /\ result = ""

C19_Witness ==
    /\ VcsReadFailed
    /\ diffSummary.status.hasChanges
    /\ Includes(error, DiffFailure(VcsMessage))
    /\ backendCalls = 0

\* the offsets at which t occurs in s
OffsetsOf(s, t) == {at \in 0..(Len(s) - Len(t)) : StartsWithAt(s, t, at)}

FilesHeading == "Files changed:\n"
CodeHeading == "\nCode changes:\n"
InstructionsHeading == "\n\nInstructions:\n"

\* the text of the prompt between the files heading and the code heading
FilesSection ==
    Substring(prompt, Min(OffsetsOf(prompt, FilesHeading)) + Len(FilesHeading),
              Min(OffsetsOf(prompt, CodeHeading)))

\* the snapshot's categories in the fixed order, the empty ones left out
ListedCategories ==
    SelectSeq(<<<<"Added", diffSummary.status.added>>,
                <<"Modified", diffSummary.status.modified>>,
                <<"Deleted", diffSummary.status.deleted>>,
                <<"Untracked", diffSummary.status.untracked>>>>,
              LAMBDA category : category[2] # <<>>)

RECURSIVE LinesOf(_)
LinesOf(categories) ==
    IF categories = <<>> THEN ""
    ELSE "- " \o Head(categories)[1] \o ": " \o Join(Head(categories)[2], ", ")
         \o "\n" \o LinesOf(Tail(categories))

\* C16: in a prompt buildPrompt returned, the files heading, the code
\* heading and the instructions heading occur once each and in that order,
\* and the text between the files heading and the code heading is one line
\* per non-empty category among added, modified, deleted, untracked, in that
\* order, each holding the category's paths in snapshot order joined by
\* ', '; an empty category's label occurs nowhere in the prompt.
C16_FilesSectionInFixedOrder ==
    prompt # "" =>
       /\ Cardinality(OffsetsOf(prompt, FilesHeading)) = 1
       /\ Cardinality(OffsetsOf(prompt, CodeHeading)) = 1
       /\ Cardinality(OffsetsOf(prompt, InstructionsHeading)) = 1
       /\ Min(OffsetsOf(prompt, FilesHeading)) < Min(OffsetsOf(prompt, CodeHeading))
       /\ Min(OffsetsOf(prompt, CodeHeading)) < Min(OffsetsOf(prompt, InstructionsHeading))
       /\ FilesSection = LinesOf(ListedCategories)
       /\ \A label \in {"Added", "Modified", "Deleted", "Untracked"} :
             Cardinality(OffsetsOf(prompt, "- " \o label \o ": ")) =
                Cardinality({i \in 1..Len(ListedCategories) :
                                ListedCategories[i][1] = label})

C16_Witness ==
    /\ prompt # ""
    /\ Len(diffSummary.status.added) = 2
    /\ diffSummary.status.modified # <<>>
    /\ diffSummary.status.deleted # <<>>
    /\ diffSummary.status.untracked = <<>>
    /\ Includes(prompt, "- Added: a.ts, docs/b.md\n- Modified: src/m.ts\n- Deleted: old.ts\n\nCode changes:\n")

\* C17 as stated: with options.format left out the prompt is the one built
\* for format 'conventional' and carries the type(scope): description
\* instruction.
C17_OmittedFormatIsConventional ==
    (prompt # "" /\ options.format = Undefined) =>
       /\ Includes(prompt, "type(scope): description")
       /\ prompt = buildPrompt(diffSummary, [options EXCEPT !.format = "conventional"])

\* the lines of the cleaned text, before the first-line limit
CleanedLines == Split(cleanMessage(pRaw))

\* C18: postProcessMessage returns a value for every input: the cleaned text
\* always has a line 0 for the limit to read, and the value returned is the
\* trimmed rejoined text; the limit changes line 0 only: the rejoined text
\* has as many lines as the cleaned text and every line of index >= 1 is the
\* cleaned text's line of that index.
C18_BodyLinesUntouched ==
    pStage = "done" =>
       LET rejoined == Join(limitedLines(pRaw, pOptions), "\n")
       IN  /\ Len(CleanedLines) >= 1
           /\ Len(Split(rejoined)) = Len(CleanedLines)
           /\ \A i \in 2..Len(CleanedLines) : Split(rejoined)[i] = CleanedLines[i]
           /\ pOut = Trim(rejoined)

C18_Witness ==
    /\ pStage = "done"
    /\ Len(CleanedLines) >= 2
    /\ Len(CleanedLines[1]) > Budget
    /\ Len(CleanedLines[2]) > Budget
    /\ limitedLines(pRaw, pOptions)[1] # CleanedLines[1]
    /\ Split(pOut)[2] = CleanedLines[2]

\* C20, as stated: a diff longer than the budget m whose last newline within
\* the first m characters is at an offset p >= 0.8 * m, equality included,
\* is cut at p; otherwise it is cut at m.
C20_CutAtNewlineFromEightyPercent ==
    (tStage # "input" /\ Len(tDiff) > tMax) =>
        IF LastNewlineInBudget >= 0 /\ 5 * LastNewlineInBudget >= 4 * tMax
        THEN tOnce = Substring(tDiff, 0, LastNewlineInBudget) \o TruncationMarker
        ELSE tOnce = Substring(tDiff, 0, tMax) \o TruncationMarker

\* C20, amended: a diff longer than the budget m whose last newline within
\* the first m characters is at an offset p > 0.8 * m is cut at p and the
\* result is d[0..p) followed by the marker; when p <= 0.8 * m, equality
\* included, or when there is no newline, it is cut at the raw offset m.
C20_CutAtNewlinePastEightyPercent ==
    (tStage # "input" /\ Len(tDiff) > tMax) =>
        IF LastNewlineInBudget >= 0 /\ 5 * LastNewlineInBudget > 4 * tMax
        THEN tOnce = Substring(tDiff, 0, LastNewlineInBudget) \o TruncationMarker
        ELSE tOnce = Substring(tDiff, 0, tMax) \o TruncationMarker

C20_Witness ==
    /\ tStage = "once"
    /\ Len(tDiff) > tMax
    /\ tMax = 10
    /\ LastNewlineInBudget = 8
    /\ tOnce = Substring(tDiff, 0, 10) \o TruncationMarker

----------------------------------------------------------------------------
(* Claims about getSuggestions, under SpecSuggest. *)

\* what the validator says of the message, with its default format
Validated == validateMessage(sMessage, Undefined)

\* the suggestions ahead of the validator's: all but the last
\* |errors| + |warnings| entries
HeuristicPart ==
    SubSeq(suggestions, 1,
           Len(suggestions) - Len(Validated.errors) - Len(Validated.warnings))

\* the heuristics' suggestions in their order, each present or not
HeuristicChoices ==
    {(IF tests THEN <<TestsSuggestion>> ELSE <<>>)
     \o (IF docs THEN <<DocsSuggestion>> ELSE <<>>)
     \o (IF breaking THEN <<BreakingSuggestion>> ELSE <<>>) :
        tests \in BOOLEAN, docs \in BOOLEAN, breaking \in BOOLEAN}

\* C12: the sequence getSuggestions returns is the tests warning (if any),
\* the documentation info (if any), the breaking-change warning (if any),
\* each at most once and in that order, then every validator error as an
\* 'error' in the validator's order, then every validator warning as a
\* 'warning' in the validator's order, and nothing else.
C12_SuggestionsInFixedOrder ==
    sStage = "done" =>
       LET e == Len(Validated.errors)
           w == Len(Validated.warnings)
           h == Len(suggestions) - e - w
       IN  /\ h >= 0
           /\ HeuristicPart \in HeuristicChoices
           /\ \A i \in 1..e :
                 suggestions[h + i] = [type |-> "error", message |-> Validated.errors[i]]
           /\ \A i \in 1..w :
                 suggestions[h + e + i] =
                    [type |-> "warning", message |-> Validated.warnings[i]]

C12_Witness ==
    /\ sStage = "done"
    /\ Len(suggestions) = 7
    /\ HeuristicPart = <<TestsSuggestion, DocsSuggestion, BreakingSuggestion>>
    /\ Len(Validated.errors) = 2
    /\ Len(Validated.warnings) = 2

\* a suggestion of type 'warning' about a possible breaking change
AboutBreakingChange(suggestion) ==
    /\ suggestion.type = "warning"
    /\ Includes(suggestion.message, "breaking change")

BreakingWarnings == {i \in 1..Len(suggestions) : AboutBreakingChange(suggestions[i])}

\* C13: when the snapshot's deleted list is non-empty the suggestions hold a
\* 'warning' about a possible breaking change, whatever the diff holds; when
\* deleted is empty and the diff contains neither 'BREAKING' nor 'breaking',
\* they hold none.
C13_DeletedFilesWarnOfBreakingChange ==
    sStage = "done" =>
       /\ sSummary.status.deleted # <<>> => BreakingWarnings # {}
       /\ (/\ sSummary.status.deleted = <<>>
           /\ ~diffIncludes(sSummary.diff, "BREAKING")
           /\ ~diffIncludes(sSummary.diff, "breaking")) => BreakingWarnings = {}

C13_Witness ==
    /\ sStage = "done"
    /\ sSummary.status.deleted = <<"old.ts">>
    /\ sMessage = "fix: remove old module"
    /\ ~diffIncludes(sSummary.diff, "BREAKING")
    /\ ~diffIncludes(sSummary.diff, "breaking")
    /\ BreakingWarnings # {}

----------------------------------------------------------------------------
(* Claims about the commit command, under SpecCommit. *)

\* the run is one the claim speaks of: --dry-run is set or the user chose
\* Cancel
DryRunOrCancelled == cOptions.dryRun \/ cChoice = "cancel"

\* the run has ended and generateCommitMessage had returned its message
EndedAfterGeneration == cPc = "exited" /\ cGenerated

\* C14, as stated: a run with --dry-run set or with Cancel chosen asks git
\* for no add and no commit, and once the message was generated it ends
\* with exit code 0.
C14_DryRunOrCancelExitsZero ==
    DryRunOrCancelled =>
       /\ gitOps = <<>>
       /\ EndedAfterGeneration => exitCode = ExitSuccess

\* C14, amended: a run with --dry-run set or with Cancel chosen asks git
\* for no add and no commit; once the message was generated it ends with
\* exit code 0, unless an interactive prompt of a --dry-run run was
\* rejected: the catch block then ends the run with exit code 1.
C14_DryRunOrCancelNeverWrites ==
    DryRunOrCancelled =>
       /\ gitOps = <<>>
       /\ EndedAfterGeneration =>
             IF cError = PromptMessage
             THEN exitCode = ExitFailure /\ cOptions.dryRun /\ cOptions.interactive
             ELSE exitCode = ExitSuccess /\ cError = ""

C14_Witness ==
    /\ cPc = "exited"
    /\ cOptions.dryRun
    /\ cOptions.interactive
    /\ cChoice = "edit"
    /\ cMessage = "fix: edited"
    /\ gitOps = <<>>
    /\ exitCode = ExitSuccess

\* how many entries of texts are text
CountOf(texts, text) == Cardinality({i \in 1..Len(texts) : texts[i] = text})

\* the format in force: 'conventional' when the caller passes none
FormatInForce == IF vFormat = Undefined THEN "conventional" ELSE vFormat

\* C21: the conventional-format rule applies only under 'conventional':
\* under 'simple' or 'detailed', valid is true exactly when the first line
\* has at most 72 characters and no format error is recorded; under
\* 'conventional', a first line without the conventional shape records the
\* format error once, as an error and not as a warning, and valid is false.
C21_FormatRuleOnlyUnderConventional ==
    vStage = "done" =>
       /\ FormatInForce \in {"simple", "detailed"} =>
             /\ validation.valid <=> Len(MessageFirstLine) <= 72
             /\ CountOf(validation.errors, NotConventionalError) = 0
       /\ (FormatInForce = "conventional" /\ ~HasConventionalShape(MessageFirstLine)) =>
             /\ CountOf(validation.errors, NotConventionalError) = 1
             /\ CountOf(validation.warnings, NotConventionalError) = 0
             /\ validation.valid = FALSE

C21_Witness ==
    /\ vStage = "done"
    /\ vFormat = "detailed"
    /\ ~HasConventionalShape(MessageFirstLine)
    /\ Len(MessageFirstLine) = 72
    /\ validation.valid
    /\ validation.warnings # <<>>

\* C22: by the first line's length n the length rule records one length
\* error and no length warning when n > 72, one length warning and no
\* length error when 50 < n <= 72, and neither when n <= 50.
C22_LengthRuleThreeOutcomes ==
    vStage = "done" =>
       LET n == Len(MessageFirstLine)
           lengthErrors == CountOf(validation.errors, TooLongError)
           lengthWarnings == CountOf(validation.warnings, LongerThanRecommendedWarning)
       IN  /\ n > 72 => lengthErrors = 1 /\ lengthWarnings = 0
           /\ (50 < n /\ n <= 72) => lengthErrors = 0 /\ lengthWarnings = 1
           /\ n <= 50 => lengthErrors = 0 /\ lengthWarnings = 0

C22_Witness ==
    /\ vStage = "done"
    /\ Len(MessageFirstLine) = 72
    /\ CountOf(validation.errors, TooLongError) = 0
    /\ CountOf(validation.warnings, LongerThanRecommendedWarning) = 1
    /\ vFormat = "conventional"
    /\ validation.valid

\* the added paths followed by the modified ones
ChangedPaths == sSummary.status.added \o sSummary.status.modified

\* some added-or-modified path ends in a source-code extension
SomeCodePath ==
    \E i \in 1..Len(ChangedPaths) :
        \E extension \in {".js", ".ts", ".py", ".java", ".go", ".rs", ".cpp", ".c"} :
            Len(ChangedPaths[i]) >= Len(extension)
            /\ SubstringFrom(ChangedPaths[i], Len(ChangedPaths[i]) - Len(extension))
               = extension

\* some added-or-modified path holds 'test' or 'spec'
SomeTestPath ==
    \E i \in 1..Len(ChangedPaths) :
        Includes(ChangedPaths[i], "test") \/ Includes(ChangedPaths[i], "spec")

TestsWarnings == {i \in 1..Len(suggestions) : suggestions[i] = TestsSuggestion}

\* C23: the 'consider adding tests' warning is among the suggestions, once,
\* exactly when some added-or-modified path ends in .js .ts .py .java .go
\* .rs .cpp or .c and no added-or-modified path contains 'test' or 'spec'
\* (case-sensitive); the deleted and untracked paths play no part.
C23_TestsWarningIffCodeWithoutTests ==
    sStage = "done" =>
       IF SomeCodePath /\ ~SomeTestPath
       THEN Cardinality(TestsWarnings) = 1
       ELSE TestsWarnings = {}

C23_Witness ==
    /\ sStage = "done"
    /\ sSummary.status.added = <<"Tests/a.ts">>
    /\ sSummary.status.modified = <<>>
    /\ sSummary.status.untracked = <<"x.test.js">>
    /\ sSummary.status.deleted = <<"old.ts">>
    /\ TestsWarnings = {1}

\* how many suggestions the three change-set heuristics contribute
HeuristicCount ==
    (IF hasCodeChanges(sSummary.status) /\ ~hasTestChanges(sSummary.status)
     THEN 1 ELSE 0)
    + (IF hasPublicAPIChanges(sSummary.diff) /\ ~hasDocChanges(sSummary.status)
       THEN 1 ELSE 0)
    + (IF isBreakingChange(sSummary) THEN 1 ELSE 0)

\* the suggestions after those of the three heuristics
ValidatorTail == SubSeq(suggestions, HeuristicCount + 1, Len(suggestions))

\* C24: the suggestions after those of the three heuristics are one 'error'
\* per error of validateMessage(message), then one 'warning' per warning of
\* validateMessage(message), with the validator's texts in the validator's
\* order, none dropped and none twice.
C24_TailIsTheValidation ==
    sStage = "done" =>
       /\ Len(ValidatorTail) = Len(Validated.errors) + Len(Validated.warnings)
       /\ ValidatorTail =
             [i \in 1..Len(Validated.errors) |->
                 [type |-> "error", message |-> Validated.errors[i]]]
             \o [i \in 1..Len(Validated.warnings) |->
                    [type |-> "warning", message |-> Validated.warnings[i]]]

C24_Witness ==
    /\ sStage = "done"
    /\ sMessage = "Updated " \o Pad(MaxPad) \o "\nbody"
    /\ HeuristicCount = 0
    /\ Len(suggestions) = 4
    /\ suggestions[1].type = "error"
    /\ suggestions[2].type = "error"
    /\ suggestions[3].type = "warning"
    /\ suggestions[4].message = BlankLineWarning

----------------------------------------------------------------------------
(* Further claims about generateCommitMessage's reads, under Spec. *)

\* s is empty or holds white space only
IsBlank(s) == \A i \in 0..(Len(s) - 1) : CharAt(s, i) \in WhiteSpace

\* getDiff has returned its diff to getDiffSummary
DiffReturned ==
    pc \in {"check", "awaitBackend", "returned"} \/ changesReported # "unasked"

\* getDiff threw: the call failed on the diff, not on the status
DiffReadFailed == VcsReadFailed /\ Includes(error, "git diff")

\* C25: the diff getDiff returned is the staged diff when that is not
\* blank, and the working-tree diff otherwise; the working-tree query is
\* only issued after a blank staged diff; when a query failed, the error
\* holds the query's message and no diff was returned.
C25_StagedDiffPreferred ==
    /\ DiffReturned =>
          diffSummary.diff = IF IsBlank(stagedDiff) THEN workingDiff ELSE stagedDiff
    /\ pc = "diffWorking" => IsBlank(stagedDiff)
    /\ DiffReadFailed =>
          /\ Includes(error, VcsMessage)
          /\ diffSummary.diff = ""

C25_Witness ==
    /\ DiffReturned
    /\ stagedDiff = " \n"
    /\ workingDiff # ""
    /\ diffSummary.diff = workingDiff

----------------------------------------------------------------------------
(* Claims about the commit operations, under SpecCommit. *)

\* the files commitFiles is handed, and the positions of those that do not
\* exist
ListedFiles == filesOf(cOptions.files)
MissingFiles == {i \in 1..Len(ListedFiles) : ListedFiles[i] \notin ExistingFiles}

\* C26: in a call of commitFiles with a listed file that does not exist,
\* neither git add nor git commit is asked for, whatever the file's position
\* in the list, and the call ends in an error that names a missing file.
C26_MissingFileStopsCommitFiles ==
    (cOperation = "commitFiles" /\ MissingFiles # {}) =>
       /\ gitOps = <<>>
       /\ cPc \in {"accessFiles", "exited"}
       /\ cPc = "exited" =>
             /\ exitCode = ExitFailure
             /\ \E i \in MissingFiles :
                   Includes(cError, "File not found: " \o ListedFiles[i])

C26_Witness ==
    /\ cOperation = "commitFiles"
    /\ ListedFiles = <<"a.ts", "gone.ts">>
    /\ cPc = "exited"
    /\ gitOps = <<>>
    /\ Includes(cError, "gone.ts")

AddsAsked == {i \in 1..Len(gitOps) : gitOps[i].op = "add"}
CommitsAsked == {i \in 1..Len(gitOps) : gitOps[i].op = "commit"}

\* C30: a run calls at most one commit operation and asks git for at most
\* one commit, the last thing it asks; the operation is commitStaged when
\* --staged-only is set, whether or not --files is given, else commitFiles
\* when --files is given, else commitAll; commitStaged asks for no git add,
\* commitFiles adds the listed files and commitAll adds '.'; an operation is
\* only called after the message was generated from a snapshot with changes.
C30_OneCommitByPrecedence ==
    /\ Cardinality(CommitsAsked) <= 1
    /\ Cardinality(AddsAsked) <= 1
    /\ CommitsAsked \subseteq {Len(gitOps)}
    /\ gitOps # <<>> => cOperation # "none"
    /\ cOperation # "none" =>
          /\ cGenerated
          /\ cHasChanges
          /\ cOperation = IF cOptions.stagedOnly THEN "commitStaged"
                          ELSE IF cOptions.files # "" THEN "commitFiles"
                          ELSE "commitAll"
    /\ cOperation = "commitStaged" => AddsAsked = {}
    /\ cOperation = "commitFiles" =>
          \A i \in AddsAsked : gitOps[i].paths = ListedFiles
    /\ cOperation = "commitAll" => \A i \in AddsAsked : gitOps[i].paths = <<".">>

C30_Witness ==
    /\ cPc = "exited"
    /\ cOptions.stagedOnly
    /\ cOptions.files = "a.ts, b.ts"
    /\ cOperation = "commitStaged"
    /\ gitOps = <<CommitOp(cMessage)>>
    /\ exitCode = ExitSuccess


----------------------------------------------------------------------------
(* Claims about ConfigManager, under SpecConfig. *)

\* the configuration getConfig handed to the caller's last call
StoredConfig == cfgConfig
StoredProviders == StoredConfig.providers
\* positions of the stored providers that carry the stored default's name
NamedDefault ==
    {i \in 1..Len(StoredProviders) :
        StoredProviders[i].name = StoredConfig.defaultProvider}

\* C27: getDefaultProvider returns null exactly when the stored provider
\* list is empty; on a list that is not empty it returns the provider named
\* by the stored defaultProvider when one has that name (the first of them),
\* and the first provider of the list when defaultProvider is unset or
\* names none.
C27_DefaultProviderChoice ==
    cfgOp = "getDefaultProvider" =>
        /\ cfgResult.kind = "null" <=>
               ("providers" \in StoredConfig.keys /\ Len(StoredProviders) = 0)
        /\ Len(StoredProviders) > 0 =>
               /\ cfgResult.kind = "provider"
               /\ IF NamedDefault # {}
                  THEN /\ cfgResult.provider.name = StoredConfig.defaultProvider
                       /\ \E i \in NamedDefault :
                            /\ cfgResult.provider = StoredProviders[i]
                            /\ \A j \in NamedDefault : i <= j
                  ELSE cfgResult.provider = StoredProviders[1]

\* the default names the second of two providers and that one is returned
C27_Witness ==
    /\ cfgOp = "getDefaultProvider"
    /\ Len(StoredProviders) = 2
    /\ StoredProviders[1].name # StoredConfig.defaultProvider
    /\ StoredProviders[2].name = StoredConfig.defaultProvider
    /\ cfgResult = Returned(StoredProviders[2])
    /\ cfgFile = FileOf(StoredConfig)

\* no call and no setConfig is under way
ConfigAtRest == cfgAt = "returned" /\ cfgPending = <<>>

\* C29: after any sequence of ConfigManager operations the stored
\* configuration has a providers list, a getDefaultProvider that follows
\* returns a provider or null, and an addProvider(p) that follows succeeds
\* and stores p.
C29_ProvidersListAlwaysStored ==
    ConfigAtRest =>
        /\ cfgFile.exists => (cfgFile.json /\ "providers" \in cfgFile.config.keys)
        /\ cfgOp = "getDefaultProvider" => cfgResult.kind \in {"provider", "null"}
        /\ cfgOp = "addProvider" =>
               /\ cfgResult.kind = "void"
               /\ \E i \in 1..Len(cfgFile.config.providers) :
                    cfgFile.config.providers[i] = cfgArg.provider

\* addProvider called on the file clearConfig or removeConfig('providers')
\* left: it throws and the provider is not stored
C29_AddProviderAfterResetThrows ==
    /\ ConfigAtRest
    /\ cfgOp = "addProvider"
    /\ cfgResult = ThrewTypeError
    /\ cfgFile.json
    /\ "providers" \notin cfgFile.config.keys

----------------------------------------------------------------------------
(* Claims about the add-provider command, under SpecAddProvider. *)

\* the action has returned and the setConfig addProvider started is over
AddProviderFlowOver == mPc = "done" /\ bPc = "done"
ProviderStored ==
    /\ apFile.json
    /\ \E i \in 1..Len(apFile.config.providers) :
         apFile.config.providers[i] = apProvider

\* C28: when the add-provider flow (addProvider(p) awaited, getConfig,
\* setConfig('defaultProvider', p.name)) is over, the stored configuration
\* has p among its providers, whatever the order of the file reads and
\* writes was.
C28_AddedProviderStored ==
    (AddProviderFlowOver /\ apEnded = "defaultSet") => ProviderStored

\* the flow is over, p was made the default and is not among the providers
C28_UpdateLost ==
    /\ AddProviderFlowOver
    /\ apEnded = "defaultSet"
    /\ apFile.json
    /\ apFile.config.defaultProvider = apProvider.name
    /\ ~ProviderStored

\* the flow is over and the two writes have left a text that is no JSON
C28_FileBroken ==
    /\ AddProviderFlowOver
    /\ apEnded = "defaultSet"
    /\ ~apFile.json

=============================================================================
